---------------------------- MODULE Spec2Model ----------------------------
(***************************************************************************)
(* FamilyLocator: the geofence tracker (server/geofencing.ts), the         *)
(* notification fan-out and the location ingest route (server/routes.ts)   *)
(* over the storage layer (server/storage.ts).                             *)
(*                                                                         *)
(* Node runs every handler on one thread: a handler runs without           *)
(* interruption from one `await` to the next, and handlers interleave only *)
(* at the awaits.  Each action below is therefore the code from the        *)
(* resolution (or rejection) of one awaited storage call up to the next    *)
(* await, and the storage call takes effect in the step that resolves it.  *)
(***************************************************************************)
EXTENDS Integers, Sequences, FiniteSets, Bags, TLC

\* ------------------------------------------------------------------ bounds
MaxPings == 2          \* checks started in one behaviour with overlapping checks
MaxSeqChecks == 3      \* checks started in one behaviour with one check at a time
MaxFaults == 1         \* storage calls that reject in one behaviour
MaxEnv == 1            \* place deletions, member removals and resets in one behaviour
MaxIngest == 3         \* pings posted in one behaviour
MaxTicks == 3          \* steps of the clock in one behaviour
MaxIntervals == 3      \* timers set in one behaviour
MaxAuthPending == 1    \* auth messages whose getUser is pending at one time
MaxAuths == 2          \* auth messages received in one behaviour
MaxReads == 2          \* mark-read requests in one behaviour
MaxRows == 5           \* location rows stored directly in one behaviour
MaxHistoryTicks == 10  \* ten-minute steps of the clock in one behaviour

\* --------------------------------------------------------- program constants
GEOFENCE_RADIUS == 20             \* radiusMeters = 20
THROTTLE_MS == 5 * 60 * 1000      \* 5 minutes
\* Date.now() when the model starts, and the step in which it advances.
Epoch == 1000 * THROTTLE_MS
TickMs == THROTTLE_MS \div 2
DAY_MS == 24 * 60 * 60 * 1000
HOUR_IN_MS == 60 * 60 * 1000
HistoryTickMs == 10 * 60 * 1000
HalfDayMs == DAY_MS \div 2

\* ------------------------------------------------------------- the scenario
\* Three users: 1 is connected to 2 and to 3, 2 and 3 are not connected.
\* Users 1 and 2 send pings.  Two places, Home (of user 2) and Work (of
\* user 3), lie 2R apart on one meridian; pings come from Home, from the
\* point R from both, from Work and from a point far from both.
Users == {1, 2, 3}
Movers == {1, 2}
PlaceIds == {1, 2}
Tasks == {1, 2}         \* two handlers can be in flight at the same time
Positions == {0, GEOFENCE_RADIUS, 2 * GEOFENCE_RADIUS, 4 * GEOFENCE_RADIUS}
\* Pings are posted by user 1, from Home.
PostedPositions == {0}
Channels == {1, 2}      \* the WebSocket objects of the connections made
Viewers == {2, 3}       \* the users whose clients open WebSockets beside the pings
Codes == {"AAA111", "BBB222", "CCC333"}

\* ------------------------------------------------------------ pure helpers
Abs(x) == IF x < 0 THEN -x ELSE x

\* The elements of a set of integers, largest first.
RECURSIVE Descending(_)
Descending(S) ==
    IF S = {} THEN <<>>
    ELSE LET m == CHOOSE x \in S : \A y \in S : y <= x
         IN <<m>> \o Descending(S \ {m})

Range(s) == {s[k] : k \in 1..Len(s)}

\* Number.prototype.toString for the user ids of the model.
Digits == <<"1", "2", "3", "4", "5", "6", "7", "8", "9">>
toStringId(u) == Digits[u]

\* --------------------------------------------------------------- the data
\* users rows: firstName is nullable, email is not.
FirstName(u) == IF u = 1 THEN "Jane" ELSE IF u = 2 THEN "" ELSE "Sam"
Email(u) == IF u = 1 THEN "jane@x" ELSE IF u = 2 THEN "bob@x" ELSE "sam@x"
\* `user.firstName || user.email`
DisplayName(u) == IF FirstName(u) # "" THEN FirstName(u) ELSE Email(u)

\* places rows.
PlaceName(p) == IF p = 1 THEN "Home" ELSE IF p = 2 THEN "Work" ELSE "Gym"
PlaceOwner(p) == IF p = 1 THEN 2 ELSE IF p = 2 THEN 3 ELSE 1
PlaceLat(p) == (p - 1) * 2 * GEOFENCE_RADIUS

\* calculateDistance: the haversine distance of two points of one meridian is
\* R * |dLat|; positions are given as metres along that meridian.
calculateDistance(lat1, lat2) == Abs(lat2 - lat1)

\* isWithinGeofence with `distance < radiusMeters`.
isWithinGeofenceStrict(userLat, placeLat) ==
    calculateDistance(userLat, placeLat) < GEOFENCE_RADIUS

isWithinGeofence(userLat, placeLat) ==
    calculateDistance(userLat, placeLat) <= GEOFENCE_RADIUS

\* ---------------------------------------------------------------- state
VARIABLES
    connections,          \* family_connections rows with status accepted: a bag of <<userId, familyMemberId>>
    places,               \* ids of the rows of the places table
    notifications,        \* the rows of the notifications table (ids and createdAt left out): a bag
    userGeofenceStates,   \* Map<string, Set<number>>: a function on the keys present
    hook,                 \* global.broadcastNotification is set
    broadcasts,           \* the payloads handed to global.broadcastNotification: a bag
    task,                 \* the handlers in flight, each with its locals and its await
    started,              \* checks started so far
    faults,               \* storage calls rejected so far
    envSteps,             \* place deletions, member removals and resets so far
    console,              \* the "User u entered/exited place p" lines logged: a bag of <<u, action, p>>
    prevPing,             \* per user: the position of the last check that stored a state
                          \* since the state was last reset (NoPing: none)
    locations,            \* the locations table, in insertion order (the index is the serial id)
    lastLocationNotification, \* global.lastLocationNotification: a function on the keys present
    clock,                \* Date.now()
    movedLog,             \* per 'location' notification created: <<moverId, memberId, currentTime>>, a bag
    invitationCodes,      \* the invitation_codes table: a function on the codes present
    responses,            \* the responses of the routes: a bag of <<route, userId, status>>
    clients,              \* Map<string, WebSocket>: a function on the keys present
    readyState,           \* per WebSocket: "UNBORN" (not connected yet), "OPEN", "CLOSING", "CLOSED"
    authPending,          \* the getUser promises of auth messages not yet settled: a bag of userId strings
    auths,                \* auth messages received so far
    sent,                 \* what client.send was called with: a bag of <<WebSocket, message>>
    activeSessions,       \* LocationLogger.activeSessions: a function on the keys present
    intervals,            \* the timers set and not cleared: a function interval id -> userId
    intervalsCreated,     \* setInterval calls so far (the next timer's id)
    signalled             \* a SIGTERM or SIGINT has been handled

\* What the ingest and the tracker never touch.
joinVars == <<invitationCodes>>
wsVars == <<clients, readyState, authPending, auths>>
loggerVars == <<activeSessions, intervals, intervalsCreated, signalled>>

\* What the geofence tracker never touches.
ingestVars == <<locations, lastLocationNotification, clock, movedLog>>

vars == <<connections, places, notifications, userGeofenceStates, hook, broadcasts,
          task, started, faults, envSteps, console, prevPing, ingestVars,
          joinVars, wsVars, loggerVars, sent, responses>>

NoPing == 0 - 1

IdleTask ==
    [pc |-> "idle", userId |-> 0, lat |-> 0, memberIds |-> {}, familyPlaces |-> <<>>,
     hadEntry |-> FALSE, currentGeofences |-> {}, newGeofences |-> {}, i |-> 0,
     action |-> "none", userName |-> "", familyMembers |-> <<>>, j |-> 0,
     emits |-> <<>>, wrote |-> FALSE,
     kind |-> "check", locationId |-> 0, currentTime |-> 0, shouldCreate |-> FALSE,
     code |-> "", inviterId |-> 0]

\* storage.getFamilyMembers: the users joined to the accepted rows of userId,
\* as the set of their ids.
getFamilyMembers(userId) == {c[2] : c \in {d \in BagToSet(connections) : d[1] = userId}}

\* The arrays storage.getFamilyMembers may resolve with: one element per
\* accepted row of userId, in any row order (the query has no ORDER BY).
getFamilyMembersResult(userId) ==
    LET rows(m) == CopiesIn(<<userId, m>>, connections)
        n == BagCardinality([c \in {d \in BagToSet(connections) : d[1] = userId}
                                |-> connections[c]])
    IN {s \in [1..n -> getFamilyMembers(userId)] :
           \A m \in getFamilyMembers(userId) :
               Cardinality({i \in 1..n : s[i] = m}) = rows(m)}

\* The places query of storage.getFamilyPlaces: rows whose owner is in
\* familyMemberIds, newest first (ids are serial).
FamilyPlacesQuery(familyMemberIds) ==
    Descending({p \in places : PlaceOwner(p) \in familyMemberIds})

\* The codes through which the accepted rows of Init were made: user 1 joined
\* with a code of user 2 and with a code of user 3.
InitialCodes ==
    [code \in {"AAA111", "BBB222"} |->
        [userId |-> IF code = "AAA111" THEN 2 ELSE 3, expiresAt |-> Epoch,
         usedAt |-> Epoch - DAY_MS, usedById |-> 1]]

Init ==
    /\ connections = SetToBag({<<1, 2>>, <<2, 1>>, <<1, 3>>, <<3, 1>>})
    /\ places = PlaceIds
    /\ notifications = EmptyBag
    /\ userGeofenceStates = [k \in {} |-> {}]
    /\ hook = TRUE
    /\ broadcasts = EmptyBag
    /\ task = [t \in Tasks |-> IdleTask]
    /\ started = 0
    /\ faults = 0
    /\ envSteps = 0
    /\ console = EmptyBag
    /\ prevPing = [u \in Users |-> NoPing]
    /\ locations = <<>>
    /\ lastLocationNotification = [k \in {} |-> 0]
    /\ clock = Epoch
    /\ movedLog = EmptyBag
    /\ invitationCodes = InitialCodes
    /\ responses = EmptyBag
    /\ clients = [k \in {} |-> 0]
    /\ readyState = [ws \in Channels |-> "UNBORN"]
    /\ authPending = EmptyBag
    /\ auths = 0
    /\ sent = EmptyBag
    /\ activeSessions = [k \in {} |-> 0]
    /\ intervals = [k \in {} |-> ""]
    /\ intervalsCreated = 0
    /\ signalled = FALSE

\* ------------------------------------------------- the geofence tracker
\* Map.set and Map.delete on a map held as a function on its keys.
MapSet(m, k, v) == [x \in DOMAIN m \cup {k} |-> IF x = k THEN v ELSE m[x]]
MapDelete(m, k) == [x \in DOMAIN m \ {k} |-> m[x]]

\* Transition without the `!wasInside` of the entry test.
TransitionForgetful(isCurrentlyInside, wasInside) ==
    IF isCurrentlyInside THEN "entered"
    ELSE IF wasInside THEN "exited"
    ELSE "none"

\* The branch taken for one place: `isCurrentlyInside && !wasInside` is an
\* entry, `!isCurrentlyInside && wasInside` an exit.
Transition(isCurrentlyInside, wasInside) ==
    IF isCurrentlyInside /\ ~wasInside THEN "entered"
    ELSE IF ~isCurrentlyInside /\ wasInside THEN "exited"
    ELSE "none"

\* The for loop over familyPlaces from index k with newGeofences = n, run up
\* to its next await (the call of sendGeofenceNotification for place k) or to
\* its end.
RECURSIVE RunLoop(_, _, _, _, _)
RunLoop(familyPlaces, currentGeofences, newLat, k, n) ==
    IF k > Len(familyPlaces) THEN [stop |-> FALSE, i |-> k, new |-> n, action |-> "none"]
    ELSE LET place == familyPlaces[k]
             isCurrentlyInside == isWithinGeofence(newLat, PlaceLat(place))
             n2 == IF isCurrentlyInside THEN n \cup {place} ELSE n
             wasInside == place \in currentGeofences
             a == Transition(isCurrentlyInside, wasInside)
         IN IF a # "none"
            THEN [stop |-> TRUE, i |-> k, new |-> n2, action |-> a]
            ELSE RunLoop(familyPlaces, currentGeofences, newLat, k + 1, n2)

\* StoreState that adds newGeofences to the set stored before.
StoreStateMerged(m, userId, newGeofences) ==
    MapSet(m, toStringId(userId),
           newGeofences \cup (IF toStringId(userId) \in DOMAIN m THEN m[toStringId(userId)] ELSE {}))

\* The state stored at the end of a check: `userGeofenceStates.set(userKey, newGeofences)`.
StoreState(m, userId, newGeofences) == MapSet(m, toStringId(userId), newGeofences)

\* The check of task t, with locals tk, resumed in the loop at index k.
ContinueCheck(t, tk, k) ==
    LET r == RunLoop(tk.familyPlaces, tk.currentGeofences, tk.lat, k, tk.newGeofences)
    IN IF r.stop
       THEN /\ task' = [task EXCEPT ![t] =
                    [tk EXCEPT !.pc = "notify_user", !.i = r.i, !.newGeofences = r.new,
                               !.action = r.action,
                               !.emits = Append(@, <<r.action, tk.familyPlaces[r.i]>>)]]
            /\ console' = console (+) SetToBag({<<tk.userId, r.action, tk.familyPlaces[r.i]>>})
            /\ UNCHANGED userGeofenceStates
       ELSE /\ task' = [task EXCEPT ![t] =
                    [tk EXCEPT !.pc = "done", !.i = r.i, !.newGeofences = r.new,
                               !.action = "none", !.wrote = TRUE]]
            /\ userGeofenceStates' = StoreState(userGeofenceStates, tk.userId, r.new)
            /\ UNCHANGED console

\* checkGeofenceTransitions(userId, newLat, ..) is called: it awaits
\* storage.getFamilyPlaces, which awaits getFamilyMembers first.
StartCheck(t, userId, newLat) ==
    /\ task[t].pc = "idle"
    /\ \A t2 \in Tasks : t2 < t => task[t2].pc # "idle"
    /\ started' = started + 1
    /\ task' = [task EXCEPT ![t] = [IdleTask EXCEPT !.pc = "places_members",
                                                     !.userId = userId, !.lat = newLat]]
    /\ UNCHANGED <<connections, places, notifications, userGeofenceStates, hook,
                   broadcasts, faults, envSteps, console, prevPing, ingestVars,
                   joinVars, wsVars, loggerVars, sent, responses>>

\* getFamilyPlaces: getFamilyMembers resolves; familyMemberIds = [userId, ...members].
GetFamilyPlaces_Members(t) ==
    /\ task[t].pc = "places_members"
    /\ task' = [task EXCEPT ![t].pc = "places_query",
                            ![t].memberIds = {task[t].userId} \cup getFamilyMembers(task[t].userId)]
    /\ UNCHANGED <<connections, places, notifications, userGeofenceStates, hook,
                   broadcasts, started, faults, envSteps, console, prevPing, ingestVars,
                   joinVars, wsVars, loggerVars, sent, responses>>

\* GetFamilyPlaces_Query without the `familyPlaces.length === 0` return.
GetFamilyPlaces_QueryNoGuard(t) ==
    /\ task[t].pc = "places_query"
    /\ LET familyPlaces == FamilyPlacesQuery(task[t].memberIds)
           userKey == toStringId(task[t].userId)
           has == userKey \in DOMAIN userGeofenceStates
           tk == [task[t] EXCEPT !.familyPlaces = familyPlaces,
                                 !.hadEntry = has,
                                 !.currentGeofences =
                                      IF has THEN userGeofenceStates[userKey] ELSE {}]
       IN ContinueCheck(t, tk, 1)
    /\ UNCHANGED <<connections, places, notifications, hook, broadcasts, started,
                   faults, envSteps, prevPing, ingestVars,
                   joinVars, wsVars, loggerVars, sent, responses>>

\* getFamilyPlaces resolves with the places of familyMemberIds; the check runs
\* on: the empty-list return, or the snapshot of the stored state and the loop.
GetFamilyPlaces_Query(t) ==
    /\ task[t].pc = "places_query"
    /\ LET familyPlaces == FamilyPlacesQuery(task[t].memberIds)
           userKey == toStringId(task[t].userId)
           has == userKey \in DOMAIN userGeofenceStates
           tk == [task[t] EXCEPT !.familyPlaces = familyPlaces,
                                 !.hadEntry = has,
                                 !.currentGeofences =
                                      IF has THEN userGeofenceStates[userKey] ELSE {}]
       IN IF Len(familyPlaces) = 0
          THEN /\ task' = [task EXCEPT ![t].pc = "done"]
               /\ UNCHANGED <<userGeofenceStates, console>>
          ELSE ContinueCheck(t, tk, 1)
    /\ UNCHANGED <<connections, places, notifications, hook, broadcasts, started,
                   faults, envSteps, prevPing, ingestVars,
                   joinVars, wsVars, loggerVars, sent, responses>>

\* GetFamilyPlaces_Reject without the try of checkGeofenceTransitions: the
\* rejection reaches the catch of the handler, which answers 500.
GetFamilyPlaces_RejectThrows(t) ==
    /\ task[t].pc \in {"places_members", "places_query"}
    /\ faults < MaxFaults
    /\ faults' = faults + 1
    /\ task' = [task EXCEPT ![t] = IdleTask]
    /\ responses' = responses (+) SetToBag({<<"POST /api/locations", task[t].userId, 500>>})
    /\ UNCHANGED <<connections, places, notifications, userGeofenceStates, hook,
                   broadcasts, started, envSteps, console, prevPing, ingestVars,
                   joinVars, wsVars, loggerVars, sent>>

\* getFamilyPlaces rejects: the catch of checkGeofenceTransitions logs and returns.
GetFamilyPlaces_Reject(t) ==
    /\ task[t].pc \in {"places_members", "places_query"}
    /\ faults < MaxFaults
    /\ faults' = faults + 1
    /\ task' = [task EXCEPT ![t].pc = "done"]
    /\ UNCHANGED <<connections, places, notifications, userGeofenceStates, hook,
                   broadcasts, started, envSteps, console, prevPing, ingestVars,
                   joinVars, wsVars, loggerVars, sent, responses>>

\* ------------------------------------------------- the WebSocket clients
\* `{ type: 'geofence', ...notification }`: the fields of notification, and
\* type 'geofence' if notification has no type of its own.
SpreadOverGeofence(notification) ==
    [k \in DOMAIN notification \cup {"type"} |->
        IF k \in DOMAIN notification THEN notification[k] ELSE "geofence"]

\* The keys of clients whose WebSocket is ws.
KeysOf(ws) == {k \in DOMAIN clients : clients[k] = ws}

\* broadcastNotification that sends to the entries of notification.userId and
\* of its family members only.
broadcastNotificationToFamily(notification) ==
    LET scope == {toStringId(u) : u \in {notification.userId} \cup getFamilyMembers(notification.userId)}
    IN [e \in {<<ws, SpreadOverGeofence(notification)>> :
                   ws \in {c \in Channels : KeysOf(c) \cap scope # {} /\ readyState[c] = "OPEN"}}
           |-> Cardinality(KeysOf(e[1]) \cap scope)]

\* broadcastNotification without the `client.readyState === WebSocket.OPEN` test.
broadcastNotificationUnchecked(notification) ==
    [e \in {<<ws, SpreadOverGeofence(notification)>> :
                ws \in {c \in Channels : KeysOf(c) # {}}}
        |-> Cardinality(KeysOf(e[1]))]

\* global.broadcastNotification(notification): client.send for every entry of
\* clients whose WebSocket is open.
broadcastNotification(notification) ==
    [e \in {<<ws, SpreadOverGeofence(notification)>> :
                ws \in {c \in Channels : KeysOf(c) # {} /\ readyState[c] = "OPEN"}}
        |-> Cardinality(KeysOf(e[1]))]

\* broadcastLocationUpdate(userId, location) once getFamilyMembers has
\* resolved: client.send for every element of familyMembers whose id has an
\* entry in clients with an open WebSocket.
LocationUpdate(userId, locationId) ==
    [type |-> "locationUpdate", userId |-> toStringId(userId), location |-> locationId]

\* broadcastLocationUpdate that sends to every entry of clients whose
\* WebSocket is open.
broadcastLocationUpdateToAll(userId, locationId) ==
    [e \in {<<ws, LocationUpdate(userId, locationId)>> :
                ws \in {c \in Channels : KeysOf(c) # {} /\ readyState[c] = "OPEN"}}
        |-> Cardinality(KeysOf(e[1]))]

broadcastLocationUpdate(userId, locationId) ==
    [e \in {<<ws, LocationUpdate(userId, locationId)>> :
                ws \in {c \in Channels :
                           /\ readyState[c] = "OPEN"
                           /\ \E m \in getFamilyMembers(userId) : toStringId(m) \in KeysOf(c)}}
        |-> BagCardinality([m \in {x \in getFamilyMembers(userId) : toStringId(x) \in KeysOf(e[1])}
                               |-> CopiesIn(<<userId, m>>, connections)])]

\* ------------------------------------------- sendGeofenceNotification
\* `geofence_${action}`
GeofenceType(action) == "geofence_" \o action

\* MemberNotification with `userId: userId`, the mover, as recipient.
MemberNotificationToMover(familyMemberId, userId, userName, place, action) ==
    [userId |-> userId,
     type |-> GeofenceType(action),
     title |-> "Location Alert",
     message |-> <<userName, "has", action, PlaceName(place)>>,
     data |-> [triggeredByUserId |-> userId, placeId |-> place,
               placeName |-> PlaceName(place), action |-> action],
     isRead |-> FALSE]

\* The record created for one family member.
MemberNotification(familyMemberId, userId, userName, place, action) ==
    [userId |-> familyMemberId,
     type |-> GeofenceType(action),
     title |-> "Location Alert",
     message |-> <<userName, "has", action, PlaceName(place)>>,
     data |-> [triggeredByUserId |-> userId, placeId |-> place,
               placeName |-> PlaceName(place), action |-> action],
     isRead |-> FALSE]

\* The record created for the user who triggered the geofence.
SelfNotification(userId, place, action) ==
    [userId |-> userId,
     type |-> GeofenceType(action),
     title |-> "Location Alert",
     message |-> <<"You", IF action = "entered" THEN "entered" ELSE "exited", PlaceName(place)>>,
     data |-> [placeId |-> place, placeName |-> PlaceName(place), action |-> action],
     isRead |-> FALSE]

\* The payload handed to global.broadcastNotification.
GeofenceBroadcast(userId, userName, place, action) ==
    [type |-> "geofence", userId |-> userId, userName |-> userName,
     placeName |-> PlaceName(place), action |-> action,
     message |-> <<userName, "has", action, PlaceName(place)>>]

Place(tk) == tk.familyPlaces[tk.i]

\* storage.createNotification: one more row.
createNotification(table, notification) == table (+) SetToBag({notification})

\* storage.getUser resolves.  Every user id of the model has a row, so `!user`
\* is false; the handler goes on to await getFamilyMembers.
Notify_GetUser(t) ==
    /\ task[t].pc = "notify_user"
    /\ task' = [task EXCEPT ![t].pc = "notify_members",
                            ![t].userName = DisplayName(task[t].userId)]
    /\ UNCHANGED <<connections, places, notifications, userGeofenceStates, hook,
                   broadcasts, started, faults, envSteps, console, prevPing, ingestVars,
                   joinVars, wsVars, loggerVars, sent, responses>>

\* Notify_GetFamilyMembers with the broadcast made before the records are
\* created.
Notify_GetFamilyMembersBroadcasts(t) ==
    /\ task[t].pc = "notify_members"
    /\ \E familyMembers \in getFamilyMembersResult(task[t].userId) :
          task' = [task EXCEPT ![t].familyMembers = familyMembers,
                               ![t].j = 1,
                               ![t].pc = IF Len(familyMembers) = 0 THEN "notify_self"
                                         ELSE "notify_create"]
    /\ broadcasts' = IF hook
                     THEN broadcasts (+)
                          SetToBag({GeofenceBroadcast(task[t].userId, task[t].userName,
                                                      Place(task[t]), task[t].action)})
                     ELSE broadcasts
    /\ UNCHANGED <<connections, places, notifications, userGeofenceStates, hook,
                   started, faults, envSteps, console, prevPing, ingestVars,
                   joinVars, wsVars, loggerVars, sent, responses>>

\* storage.getFamilyMembers resolves, in some row order; the handler awaits the
\* first createNotification: of the first family member, or its own.
Notify_GetFamilyMembers(t) ==
    /\ task[t].pc = "notify_members"
    /\ \E familyMembers \in getFamilyMembersResult(task[t].userId) :
          task' = [task EXCEPT ![t].familyMembers = familyMembers,
                               ![t].j = 1,
                               ![t].pc = IF Len(familyMembers) = 0 THEN "notify_self"
                                         ELSE "notify_create"]
    /\ UNCHANGED <<connections, places, notifications, userGeofenceStates, hook,
                   broadcasts, started, faults, envSteps, console, prevPing, ingestVars,
                   joinVars, wsVars, loggerVars, sent, responses>>

\* createNotification for familyMembers[j] resolves; the loop goes to the next
\* family member, or on to the self-notification.
Notify_CreateForMember(t) ==
    /\ task[t].pc = "notify_create"
    /\ LET tk == task[t]
       IN /\ notifications' = createNotification(notifications,
                 MemberNotification(tk.familyMembers[tk.j], tk.userId, tk.userName,
                                    Place(tk), tk.action))
          /\ task' = [task EXCEPT ![t].j = tk.j + 1,
                                  ![t].pc = IF tk.j < Len(tk.familyMembers)
                                            THEN "notify_create" ELSE "notify_self"]
    /\ UNCHANGED <<connections, places, userGeofenceStates, hook, broadcasts, started,
                   faults, envSteps, console, prevPing, ingestVars,
                   joinVars, wsVars, loggerVars, sent, responses>>

\* Notify_CreateForSelf without `if ((global as any).broadcastNotification)`.
Notify_CreateForSelfUnguarded(t) ==
    /\ task[t].pc = "notify_self"
    /\ LET tk == task[t]
       IN /\ notifications' = createNotification(notifications,
                 SelfNotification(tk.userId, Place(tk), tk.action))
          /\ broadcasts' = broadcasts (+)
                               SetToBag({GeofenceBroadcast(tk.userId, tk.userName,
                                                           Place(tk), tk.action)})
          /\ sent' = sent (+) broadcastNotification(
                              GeofenceBroadcast(tk.userId, tk.userName, Place(tk), tk.action))
          /\ ContinueCheck(t, tk, tk.i + 1)
    /\ UNCHANGED <<connections, places, hook, started, faults, envSteps, prevPing,
                   ingestVars,
                   joinVars, wsVars, loggerVars, responses>>

\* createNotification for the user resolves; the broadcast is made if the hook
\* is set, sendGeofenceNotification returns and the check goes on with the
\* next place.
Notify_CreateForSelf(t) ==
    /\ task[t].pc = "notify_self"
    /\ LET tk == task[t]
       IN /\ notifications' = createNotification(notifications,
                 SelfNotification(tk.userId, Place(tk), tk.action))
          /\ broadcasts' = IF hook
                           THEN broadcasts (+)
                                SetToBag({GeofenceBroadcast(tk.userId, tk.userName,
                                                            Place(tk), tk.action)})
                           ELSE broadcasts
          /\ sent' = IF hook
                     THEN sent (+) broadcastNotification(
                              GeofenceBroadcast(tk.userId, tk.userName, Place(tk), tk.action))
                     ELSE sent
          /\ ContinueCheck(t, tk, tk.i + 1)
    /\ UNCHANGED <<connections, places, hook, started, faults, envSteps, prevPing,
                   ingestVars,
                   joinVars, wsVars, loggerVars, responses>>

\* sendGeofenceNotification without its try/catch: the rejection reaches the
\* catch of checkGeofenceTransitions, which returns without storing the state.
Notify_RejectAborts(t) ==
    /\ task[t].pc \in {"notify_user", "notify_members", "notify_create", "notify_self"}
    /\ faults < MaxFaults
    /\ faults' = faults + 1
    /\ task' = [task EXCEPT ![t].pc = "done", ![t].action = "none"]
    /\ UNCHANGED <<connections, places, notifications, userGeofenceStates, hook,
                   broadcasts, started, envSteps, console, prevPing, ingestVars,
                   joinVars, wsVars, loggerVars, sent, responses>>

\* storage.getUser resolves with undefined, the row of the user being gone:
\* `if (!user) return`, and the check goes on with the next place.
Notify_UserMissing(t) ==
    /\ task[t].pc = "notify_user"
    /\ envSteps < MaxEnv
    /\ envSteps' = envSteps + 1
    /\ ContinueCheck(t, task[t], task[t].i + 1)
    /\ UNCHANGED <<connections, places, notifications, hook, broadcasts, started,
                   faults, prevPing, ingestVars,
                   joinVars, wsVars, loggerVars, sent, responses>>

\* An awaited storage call of sendGeofenceNotification rejects: its catch logs,
\* it returns, and the check goes on with the next place.
Notify_Reject(t) ==
    /\ task[t].pc \in {"notify_user", "notify_members", "notify_create", "notify_self"}
    /\ faults < MaxFaults
    /\ faults' = faults + 1
    /\ ContinueCheck(t, task[t], task[t].i + 1)
    /\ UNCHANGED <<connections, places, notifications, hook, broadcasts, started,
                   envSteps, prevPing, ingestVars,
                   joinVars, wsVars, loggerVars, sent, responses>>

\* The promise of checkGeofenceTransitions resolves to its caller.
Return(t) ==
    /\ task[t].pc = "done"
    /\ task[t].kind = "check"
    /\ prevPing' = IF task[t].wrote THEN [prevPing EXCEPT ![task[t].userId] = task[t].lat]
                   ELSE prevPing
    /\ task' = [task EXCEPT ![t] = IdleTask]
    /\ UNCHANGED <<connections, places, notifications, userGeofenceStates, hook,
                   broadcasts, started, faults, envSteps, console, ingestVars,
                   joinVars, wsVars, loggerVars, sent, responses>>

\* DeleteState with `userGeofenceStates.delete(userId)`: a number is no key of the map.
DeleteStateByNumber(m, userId) == m

\* `userGeofenceStates.delete(userId.toString())`
DeleteState(m, userId) == MapDelete(m, toStringId(userId))

\* clearUserGeofenceState(userId)
clearUserGeofenceState(userId) ==
    /\ envSteps < MaxEnv
    /\ envSteps' = envSteps + 1
    /\ userGeofenceStates' = DeleteState(userGeofenceStates, userId)
    /\ prevPing' = [prevPing EXCEPT ![userId] = NoPing]
    /\ UNCHANGED <<connections, places, notifications, hook, broadcasts, task, started,
                   faults, console, ingestVars,
                   joinVars, wsVars, loggerVars, sent, responses>>

\* storage.deletePlace(userId, placeId)
deletePlace(placeId) ==
    /\ envSteps < MaxEnv
    /\ placeId \in places
    /\ envSteps' = envSteps + 1
    /\ places' = places \ {placeId}
    /\ UNCHANGED <<connections, notifications, userGeofenceStates, hook, broadcasts,
                   task, started, faults, console, prevPing, ingestVars,
                   joinVars, wsVars, loggerVars, sent, responses>>

\* storage.removeFamilyMember(userId, familyMemberId): both directions.
removeFamilyMember(userId, familyMemberId) ==
    /\ envSteps < MaxEnv
    /\ BagIn(<<userId, familyMemberId>>, connections)
    /\ envSteps' = envSteps + 1
    /\ connections' = [c \in BagToSet(connections)
                           \ {<<userId, familyMemberId>>, <<familyMemberId, userId>>}
                         |-> connections[c]]
    /\ UNCHANGED <<places, notifications, userGeofenceStates, hook, broadcasts, task,
                   started, faults, console, prevPing, ingestVars,
                   joinVars, wsVars, loggerVars, sent, responses>>

\* ------------------------------------------------ POST /api/locations
\* `timeSinceLastNotification > 5 * 60 * 1000` without the comparison: every ping passes.
shouldCreateNotificationAlways(timeSinceLastNotification) == TRUE

\* shouldCreateNotification with `>=`: a ping exactly 5 minutes later passes.
shouldCreateNotificationAtLeast(timeSinceLastNotification) ==
    timeSinceLastNotification >= THROTTLE_MS

\* `timeSinceLastNotification > 5 * 60 * 1000`
shouldCreateNotification(timeSinceLastNotification) ==
    timeSinceLastNotification > THROTTLE_MS

\* `global.lastLocationNotification?.[userId] || 0`
lastNotificationTime(userId) ==
    IF toStringId(userId) \in DOMAIN lastLocationNotification
    THEN lastLocationNotification[toStringId(userId)] ELSE 0

\* The 'location' record created for one family member.
MovedNotification(familyMemberId, userName, locationId, userId) ==
    [userId |-> familyMemberId,
     type |-> "location",
     title |-> "Location Update",
     message |-> <<userName, "updated their location">>,
     data |-> [locationId |-> locationId, userId |-> userId],
     isRead |-> FALSE]

\* The payload handed to global.broadcastNotification with it.
MovedBroadcast(familyMemberId, userName) ==
    [type |-> "notification", userId |-> familyMemberId, notificationType |-> "location",
     message |-> <<userName, "updated their location">>]

\* The handler is called: it parses the body and awaits storage.saveLocation.
Ingest_Start(t, userId, latitude) ==
    /\ task[t].pc = "idle"
    /\ \A t2 \in Tasks : t2 < t => task[t2].pc # "idle"
    /\ started' = started + 1
    /\ task' = [task EXCEPT ![t] = [IdleTask EXCEPT !.pc = "save", !.kind = "ingest",
                                                     !.userId = userId, !.lat = latitude]]
    /\ UNCHANGED <<connections, places, notifications, userGeofenceStates, hook,
                   broadcasts, faults, envSteps, console, prevPing, ingestVars,
                   joinVars, wsVars, loggerVars, sent, responses>>

\* storage.saveLocation: the row is inserted with the next serial id (its
\* index) and timestamp defaultNow().
saveLocation(table, userId, latitude, type) ==
    Append(table, [userId |-> userId, latitude |-> latitude, type |-> type,
                   timestamp |-> clock])

\* saveLocation resolves with the inserted row; the handler awaits getUser.
Ingest_SaveLocation(t) ==
    /\ task[t].pc = "save"
    /\ locations' = saveLocation(locations, task[t].userId, task[t].lat, "manual")
    /\ task' = [task EXCEPT ![t].pc = "ingest_user", ![t].locationId = Len(locations) + 1]
    /\ UNCHANGED <<connections, places, notifications, userGeofenceStates, hook,
                   broadcasts, started, faults, envSteps, console, prevPing,
                   lastLocationNotification, clock, movedLog,
                   joinVars, wsVars, loggerVars, sent, responses>>

\* getUser resolves: `user?.firstName || user?.email || 'User'`; the handler
\* awaits getFamilyMembers.
Ingest_GetUser(t) ==
    /\ task[t].pc = "ingest_user"
    /\ task' = [task EXCEPT ![t].pc = "ingest_members",
                            ![t].userName = DisplayName(task[t].userId)]
    /\ UNCHANGED <<connections, places, notifications, userGeofenceStates, hook,
                   broadcasts, started, faults, envSteps, console, prevPing, ingestVars,
                   joinVars, wsVars, loggerVars, sent, responses>>

\* The gate without `lastLocationNotification[userId] = currentTime` in the
\* run that tests it.
Ingest_GetFamilyMembersNoSet(t) ==
    /\ task[t].pc = "ingest_members"
    /\ \E familyMembers \in getFamilyMembersResult(task[t].userId) :
          LET userId == task[t].userId
              currentTime == clock
              timeSinceLastNotification == currentTime - lastNotificationTime(userId)
          IN IF shouldCreateNotification(timeSinceLastNotification) /\ Len(familyMembers) > 0
             THEN task' = [task EXCEPT ![t].pc = "moved_create",
                                       ![t].familyMembers = familyMembers,
                                       ![t].j = 1,
                                       ![t].currentTime = currentTime,
                                       ![t].shouldCreate = TRUE]
             ELSE task' = [task EXCEPT ![t].pc = "places_members",
                                       ![t].familyMembers = familyMembers,
                                       ![t].currentTime = currentTime]
    /\ UNCHANGED <<connections, places, notifications, userGeofenceStates, hook,
                   broadcasts, started, faults, envSteps, console, prevPing,
                   locations, clock, movedLog, lastLocationNotification,
                   joinVars, wsVars, loggerVars, sent, responses>>

\* getFamilyMembers resolves; the throttle is read, tested and set in one run,
\* and the handler awaits the first createNotification, or, the gate closed
\* or the family empty, calls checkGeofenceTransitions.
Ingest_GetFamilyMembers(t) ==
    /\ task[t].pc = "ingest_members"
    /\ \E familyMembers \in getFamilyMembersResult(task[t].userId) :
          LET userId == task[t].userId
              currentTime == clock
              timeSinceLastNotification == currentTime - lastNotificationTime(userId)
          IN IF shouldCreateNotification(timeSinceLastNotification) /\ Len(familyMembers) > 0
             THEN /\ lastLocationNotification' =
                         MapSet(lastLocationNotification, toStringId(userId), currentTime)
                  /\ task' = [task EXCEPT ![t].pc = "moved_create",
                                          ![t].familyMembers = familyMembers,
                                          ![t].j = 1,
                                          ![t].currentTime = currentTime,
                                          ![t].shouldCreate = TRUE]
             ELSE /\ task' = [task EXCEPT ![t].pc = "places_members",
                                          ![t].familyMembers = familyMembers,
                                          ![t].currentTime = currentTime]
                  /\ UNCHANGED lastLocationNotification
    /\ UNCHANGED <<connections, places, notifications, userGeofenceStates, hook,
                   broadcasts, started, faults, envSteps, console, prevPing,
                   locations, clock, movedLog,
                   joinVars, wsVars, loggerVars, sent, responses>>

\* The loop over familyMembers goes to its next member, or ends and
\* checkGeofenceTransitions is called.
NextMember(tk) ==
    [tk EXCEPT !.j = tk.j + 1,
               !.pc = IF tk.j < Len(tk.familyMembers) THEN "moved_create" ELSE "places_members"]

\* createNotification for familyMembers[j] resolves; the payload is broadcast
\* if the hook is set.
Moved_Create(t) ==
    /\ task[t].pc = "moved_create"
    /\ LET tk == task[t]
           familyMemberId == tk.familyMembers[tk.j]
       IN /\ notifications' = createNotification(notifications,
                 MovedNotification(familyMemberId, tk.userName, tk.locationId, tk.userId))
          /\ movedLog' = movedLog (+) SetToBag({<<tk.userId, familyMemberId, tk.currentTime>>})
          /\ broadcasts' = IF hook
                           THEN broadcasts (+) SetToBag({MovedBroadcast(familyMemberId, tk.userName)})
                           ELSE broadcasts
          /\ sent' = IF hook
                     THEN sent (+) broadcastNotification(MovedBroadcast(familyMemberId, tk.userName))
                     ELSE sent
          /\ task' = [task EXCEPT ![t] = NextMember(tk)]
    /\ UNCHANGED <<connections, places, userGeofenceStates, hook, started, faults,
                   envSteps, console, prevPing, locations, lastLocationNotification,
                   clock,
                   joinVars, wsVars, loggerVars, responses>>

\* The loop without its inner try/catch: the rejection reaches the catch of
\* the handler, which answers 500.
Moved_RejectAborts(t) ==
    /\ task[t].pc = "moved_create"
    /\ faults < MaxFaults
    /\ faults' = faults + 1
    /\ task' = [task EXCEPT ![t] = IdleTask]
    /\ responses' = responses (+) SetToBag({<<"POST /api/locations", task[t].userId, 500>>})
    /\ UNCHANGED <<connections, places, notifications, userGeofenceStates, hook,
                   broadcasts, started, envSteps, console, prevPing, ingestVars,
                   joinVars, wsVars, loggerVars, sent>>

\* createNotification for familyMembers[j] rejects: the catch inside the loop logs.
Moved_Reject(t) ==
    /\ task[t].pc = "moved_create"
    /\ faults < MaxFaults
    /\ faults' = faults + 1
    /\ task' = [task EXCEPT ![t] = NextMember(task[t])]
    /\ UNCHANGED <<connections, places, notifications, userGeofenceStates, hook,
                   broadcasts, started, envSteps, console, prevPing, ingestVars,
                   joinVars, wsVars, loggerVars, sent, responses>>

\* Ingest_Reject with saveLocation in a try/catch of its own: the handler of a
\* ping whose insert failed goes on to getUser.
Ingest_RejectGoesOn(t) ==
    /\ task[t].pc \in {"save", "ingest_user", "ingest_members"}
    /\ faults < MaxFaults
    /\ faults' = faults + 1
    /\ task' = [task EXCEPT ![t] = IF task[t].pc = "save"
                                   THEN [task[t] EXCEPT !.pc = "ingest_user"]
                                   ELSE IdleTask]
    /\ responses' = IF task[t].pc = "save" THEN responses
                    ELSE responses (+) SetToBag({<<"POST /api/locations", task[t].userId, 500>>})
    /\ UNCHANGED <<connections, places, notifications, userGeofenceStates, hook,
                   broadcasts, started, envSteps, console, prevPing, ingestVars,
                   joinVars, wsVars, loggerVars, sent>>

\* saveLocation, getUser or getFamilyMembers rejects: the catch of the handler
\* answers 500.
Ingest_Reject(t) ==
    /\ task[t].pc \in {"save", "ingest_user", "ingest_members"}
    /\ faults < MaxFaults
    /\ faults' = faults + 1
    /\ task' = [task EXCEPT ![t] = IdleTask]
    /\ responses' = responses (+) SetToBag({<<"POST /api/locations", task[t].userId, 500>>})
    /\ UNCHANGED <<connections, places, notifications, userGeofenceStates, hook,
                   broadcasts, started, envSteps, console, prevPing, ingestVars,
                   joinVars, wsVars, loggerVars, sent>>

\* checkGeofenceTransitions has returned: broadcastLocationUpdate starts its
\* getFamilyMembers and the handler answers with the location.
Ingest_Respond(t) ==
    /\ task[t].pc = "done"
    /\ task[t].kind = "ingest"
    /\ prevPing' = IF task[t].wrote THEN [prevPing EXCEPT ![task[t].userId] = task[t].lat]
                   ELSE prevPing
    /\ task' = [task EXCEPT ![t].pc = "push_members"]
    /\ responses' = responses (+) SetToBag({<<"POST /api/locations", task[t].userId, 200>>})
    /\ UNCHANGED <<connections, places, notifications, userGeofenceStates, hook,
                   broadcasts, started, faults, envSteps, console, ingestVars,
                   joinVars, wsVars, loggerVars, sent>>

\* Push_Resolve that sends only for a ping that passed the throttle.
Push_ResolveThrottled(t) ==
    /\ task[t].pc = "push_members"
    /\ sent' = IF task[t].shouldCreate
               THEN sent (+) broadcastLocationUpdate(task[t].userId, task[t].locationId)
               ELSE sent
    /\ task' = [task EXCEPT ![t] = IdleTask]
    /\ UNCHANGED <<connections, places, notifications, userGeofenceStates, hook,
                   broadcasts, started, faults, envSteps, console, prevPing,
                   locations, lastLocationNotification, clock, movedLog,
                   joinVars, wsVars, loggerVars, responses>>

\* The getFamilyMembers of broadcastLocationUpdate resolves: a locationUpdate
\* is sent to the open WebSocket of each family member.
Push_Resolve(t) ==
    /\ task[t].pc = "push_members"
    /\ sent' = sent (+) broadcastLocationUpdate(task[t].userId, task[t].locationId)
    /\ task' = [task EXCEPT ![t] = IdleTask]
    /\ UNCHANGED <<connections, places, notifications, userGeofenceStates, hook,
                   broadcasts, started, faults, envSteps, console, prevPing,
                   locations, lastLocationNotification, clock, movedLog,
                   joinVars, wsVars, loggerVars, responses>>

\* It rejects: the promise has no catch, nothing is pushed.
Push_Reject(t) ==
    /\ task[t].pc = "push_members"
    /\ faults < MaxFaults
    /\ faults' = faults + 1
    /\ task' = [task EXCEPT ![t] = IdleTask]
    /\ UNCHANGED <<connections, places, notifications, userGeofenceStates, hook,
                   broadcasts, started, envSteps, console, prevPing, ingestVars,
                   joinVars, wsVars, loggerVars, sent, responses>>

\* Time passes.
Tick ==
    /\ clock < Epoch + MaxTicks * TickMs
    /\ clock' = clock + TickMs
    /\ UNCHANGED <<connections, places, notifications, userGeofenceStates, hook,
                   broadcasts, task, started, faults, envSteps, console, prevPing,
                   locations, lastLocationNotification, movedLog,
                   joinVars, wsVars, loggerVars, sent, responses>>

\* ------------------------------------------------ POST /api/family/join
\* POST /api/family/generate-code: a row with a code no row has, expiring in 24 hours.
createInvitationCode(userId, code) ==
    /\ envSteps < MaxEnv
    /\ code \notin DOMAIN invitationCodes
    /\ envSteps' = envSteps + 1
    /\ invitationCodes' = MapSet(invitationCodes, code,
                                 [userId |-> userId, expiresAt |-> clock + DAY_MS,
                                  usedAt |-> 0, usedById |-> 0])
    /\ UNCHANGED <<connections, places, notifications, userGeofenceStates, hook,
                   broadcasts, task, started, faults, console, prevPing, ingestVars,
                   wsVars, loggerVars, sent, responses>>

\* storage.addFamilyMember: one more row, status accepted.
addFamilyMember(table, userId, familyMemberId) ==
    table (+) SetToBag({<<userId, familyMemberId>>})

\* The handler is called with a code: it awaits getInvitationByCode.
Join_Start(t, userId, code) ==
    /\ task[t].pc = "idle"
    /\ \A t2 \in Tasks : t2 < t => task[t2].pc # "idle"
    /\ started' = started + 1
    /\ task' = [task EXCEPT ![t] = [IdleTask EXCEPT !.pc = "join_code", !.kind = "join",
                                                     !.userId = userId, !.code = code]]
    /\ UNCHANGED <<connections, places, notifications, userGeofenceStates, hook,
                   broadcasts, faults, envSteps, console, prevPing, ingestVars,
                   joinVars, wsVars, loggerVars, sent, responses>>

\* The handler answers with a status and ends.
JoinAnswer(t, status) ==
    /\ task' = [task EXCEPT ![t] = IdleTask]
    /\ responses' = responses (+) SetToBag({<<"POST /api/family/join", task[t].userId, status>>})

\* getInvitationByCode resolves: 404 for no row, 400 for an expired code, a
\* used code or the user's own code; otherwise the handler awaits the
\* getFamilyMembers of the user.
Join_GetInvitation(t) ==
    /\ task[t].pc = "join_code"
    /\ LET tk == task[t]
       IN IF tk.code \notin DOMAIN invitationCodes
          THEN JoinAnswer(t, 404)
          ELSE LET invitation == invitationCodes[tk.code]
               IN IF clock > invitation.expiresAt THEN JoinAnswer(t, 400)
                  ELSE IF invitation.usedAt # 0 THEN JoinAnswer(t, 400)
                  ELSE IF invitation.userId = tk.userId THEN JoinAnswer(t, 400)
                  ELSE /\ task' = [task EXCEPT ![t].pc = "join_existing",
                                               ![t].inviterId = invitation.userId]
                       /\ UNCHANGED responses
    /\ UNCHANGED <<connections, places, notifications, userGeofenceStates, hook,
                   broadcasts, started, faults, envSteps, console, prevPing, ingestVars,
                   joinVars, wsVars, loggerVars, sent>>

\* getFamilyMembers(userId) resolves: 400 if the inviter is among them;
\* otherwise the handler awaits the getFamilyMembers of the inviter.
Join_GetExisting(t) ==
    /\ task[t].pc = "join_existing"
    /\ IF task[t].inviterId \in getFamilyMembers(task[t].userId)
       THEN JoinAnswer(t, 400)
       ELSE /\ task' = [task EXCEPT ![t].pc = "join_inviter_members"]
            /\ UNCHANGED responses
    /\ UNCHANGED <<connections, places, notifications, userGeofenceStates, hook,
                   broadcasts, started, faults, envSteps, console, prevPing, ingestVars,
                   joinVars, wsVars, loggerVars, sent>>

\* getFamilyMembers(invitation.userId) resolves; the handler awaits the first
\* addFamilyMember.
Join_GetInviterMembers(t) ==
    /\ task[t].pc = "join_inviter_members"
    /\ \E inviterFamilyMembers \in getFamilyMembersResult(task[t].inviterId) :
          task' = [task EXCEPT ![t].pc = "join_add_inviter",
                               ![t].familyMembers = inviterFamilyMembers]
    /\ UNCHANGED <<connections, places, notifications, userGeofenceStates, hook,
                   broadcasts, started, faults, envSteps, console, prevPing, ingestVars,
                   joinVars, wsVars, loggerVars, sent, responses>>

\* The index from j on of the next inviter family member that is not the
\* user (`if (familyMember.id === userId) continue`), or one past the end.
RECURSIVE NextToConnect(_, _, _)
NextToConnect(familyMembers, userId, j) ==
    IF j > Len(familyMembers) THEN j
    ELSE IF familyMembers[j] = userId THEN NextToConnect(familyMembers, userId, j + 1)
    ELSE j

\* The loop over inviterFamilyMembers from index j: the next pair of rows, or
\* useInvitationCode.
JoinLoop(tk, j) ==
    LET k == NextToConnect(tk.familyMembers, tk.userId, j)
    IN [tk EXCEPT !.j = k,
                  !.pc = IF k > Len(tk.familyMembers) THEN "join_use" ELSE "join_add_member"]

\* The row (inviter, user) is inserted; the handler awaits the insert of (user, inviter).
Join_AddInviter(t) ==
    /\ task[t].pc = "join_add_inviter"
    /\ connections' = addFamilyMember(connections, task[t].inviterId, task[t].userId)
    /\ task' = [task EXCEPT ![t].pc = "join_add_user"]
    /\ UNCHANGED <<places, notifications, userGeofenceStates, hook,
                   broadcasts, started, faults, envSteps, console, prevPing, ingestVars,
                   joinVars, wsVars, loggerVars, sent, responses>>

\* The row (user, inviter) is inserted; the loop over the inviter's family starts.
Join_AddUser(t) ==
    /\ task[t].pc = "join_add_user"
    /\ connections' = addFamilyMember(connections, task[t].userId, task[t].inviterId)
    /\ task' = [task EXCEPT ![t] = JoinLoop(task[t], 1)]
    /\ UNCHANGED <<places, notifications, userGeofenceStates, hook,
                   broadcasts, started, faults, envSteps, console, prevPing, ingestVars,
                   joinVars, wsVars, loggerVars, sent, responses>>

\* The row (familyMember, user) is inserted; the handler awaits the insert of
\* (user, familyMember).
Join_AddMember(t) ==
    /\ task[t].pc = "join_add_member"
    /\ connections' = addFamilyMember(connections, task[t].familyMembers[task[t].j],
                                      task[t].userId)
    /\ task' = [task EXCEPT ![t].pc = "join_add_member_back"]
    /\ UNCHANGED <<places, notifications, userGeofenceStates, hook,
                   broadcasts, started, faults, envSteps, console, prevPing, ingestVars,
                   joinVars, wsVars, loggerVars, sent, responses>>

\* The row (user, familyMember) is inserted; the loop goes on.
Join_AddMemberBack(t) ==
    /\ task[t].pc = "join_add_member_back"
    /\ connections' = addFamilyMember(connections, task[t].userId,
                                      task[t].familyMembers[task[t].j])
    /\ task' = [task EXCEPT ![t] = JoinLoop(task[t], task[t].j + 1)]
    /\ UNCHANGED <<places, notifications, userGeofenceStates, hook,
                   broadcasts, started, faults, envSteps, console, prevPing, ingestVars,
                   joinVars, wsVars, loggerVars, sent, responses>>

\* useInvitationCode resolves: the row of the code is marked used; 200.
Join_UseCode(t) ==
    /\ task[t].pc = "join_use"
    /\ invitationCodes' =
          IF task[t].code \in DOMAIN invitationCodes
          THEN [invitationCodes EXCEPT ![task[t].code].usedAt = clock,
                                       ![task[t].code].usedById = task[t].userId]
          ELSE invitationCodes
    /\ JoinAnswer(t, 200)
    /\ UNCHANGED <<connections, places, notifications, userGeofenceStates, hook,
                   broadcasts, started, faults, envSteps, console, prevPing, ingestVars,
                   wsVars, loggerVars, sent>>

\* An awaited storage call of the handler rejects: its catch answers 500.
Join_Reject(t) ==
    /\ task[t].kind = "join" /\ task[t].pc # "idle"
    /\ faults < MaxFaults
    /\ faults' = faults + 1
    /\ JoinAnswer(t, 500)
    /\ UNCHANGED <<connections, places, notifications, userGeofenceStates, hook,
                   broadcasts, started, envSteps, console, prevPing, ingestVars,
                   joinVars, wsVars, loggerVars, sent>>

JoinSteps ==
    \/ \E t \in Tasks : Join_GetInvitation(t)
    \/ \E t \in Tasks : Join_GetExisting(t)
    \/ \E t \in Tasks : Join_GetInviterMembers(t)
    \/ \E t \in Tasks : Join_AddInviter(t)
    \/ \E t \in Tasks : Join_AddUser(t)
    \/ \E t \in Tasks : Join_AddMember(t)
    \/ \E t \in Tasks : Join_AddMemberBack(t)
    \/ \E t \in Tasks : Join_UseCode(t)

\* ------------------------------------------ PATCH /api/notifications
\* markNotificationAsRead without `eq(notifications.userId, userId)`.
markNotificationAsReadOfAnyone(table, userId, row) ==
    IF BagIn(row, table)
    THEN (table (-) SetToBag({row})) (+) SetToBag({[row EXCEPT !.isRead = TRUE]})
    ELSE table

\* storage.markNotificationAsRead(userId, notificationId), row being the row
\* with that id: isRead is set in it if it is a row of userId.
markNotificationAsRead(table, userId, row) ==
    IF BagIn(row, table) /\ row.userId = userId
    THEN (table (-) SetToBag({row})) (+) SetToBag({[row EXCEPT !.isRead = TRUE]})
    ELSE table

\* The rows of a table with isRead set in the rows of userId.
RECURSIVE markAllNotificationsAsRead(_, _)
markAllNotificationsAsRead(table, userId) ==
    IF \E r \in BagToSet(table) : r.userId = userId /\ ~r.isRead
    THEN LET r == CHOOSE x \in BagToSet(table) : x.userId = userId /\ ~x.isRead
         IN markAllNotificationsAsRead(
                [y \in BagToSet(table) \ {r} |-> table[y]]
                    (+) [y \in {[r EXCEPT !.isRead = TRUE]} |-> table[r]], userId)
    ELSE table

\* PATCH /api/notifications/:id/read by userId, :id being the id of row.
MarkRead(userId, row) ==
    /\ notifications' = markNotificationAsRead(notifications, userId, row)
    /\ responses' = responses (+) SetToBag({<<"PATCH /api/notifications/:id/read", userId, 200>>})
    /\ UNCHANGED <<connections, places, userGeofenceStates, hook, broadcasts, task,
                   started, faults, envSteps, console, prevPing, ingestVars,
                   joinVars, wsVars, loggerVars, sent>>

\* PATCH /api/notifications/mark-all-read by userId.
MarkAllRead(userId) ==
    /\ notifications' = markAllNotificationsAsRead(notifications, userId)
    /\ responses' = responses (+) SetToBag({<<"PATCH /api/notifications/mark-all-read", userId, 200>>})
    /\ UNCHANGED <<connections, places, userGeofenceStates, hook, broadcasts, task,
                   started, faults, envSteps, console, prevPing, ingestVars,
                   joinVars, wsVars, loggerVars, sent>>

\* ------------------------------------- storage.getFamilyLocationHistory
\* users.locationSharingEnabled (default true); user 1 has switched it off.
locationSharingEnabled(u) == u # 1

\* HistoryRows without `eq(users.locationSharingEnabled, true)`.
HistoryRowsAnySharing(userId) ==
    {r \in (1..Len(locations)) \X (1..BagCardinality(connections)) :
        /\ r[2] <= CopiesIn(<<userId, locations[r[1]].userId>>, connections)
        /\ locations[r[1]].timestamp >= clock - DAY_MS}

\* The rows of the query of getFamilyLocationHistory(userId): a locations row
\* joined with its user and with each accepted row of userId whose
\* familyMemberId is the row's user, the user sharing and the timestamp not
\* older than 24 hours; <<id, c>> is location id joined with the c-th such row.
HistoryRows(userId) ==
    {r \in (1..Len(locations)) \X (1..BagCardinality(connections)) :
        /\ r[2] <= CopiesIn(<<userId, locations[r[1]].userId>>, connections)
        /\ locationSharingEnabled(locations[r[1]].userId)
        /\ locations[r[1]].timestamp >= clock - DAY_MS}

\* orderBy(desc(locations.timestamp)): the orders the rows can come in, rows
\* of one timestamp in any order.
RECURSIVE NewestFirst(_)
NewestFirst(rows) ==
    IF rows = {} THEN {<<>>}
    ELSE UNION {{<<m>> \o s : s \in NewestFirst(rows \ {m})} :
                   m \in {x \in rows : \A y \in rows :
                             locations[y[1]].timestamp <= locations[x[1]].timestamp}}

\* groupedHistory[userIdStr].locations before the filter: the rows of one
\* user in the order of the result.
GroupOf(result, userIdStr) ==
    SelectSeq(result, LAMBDA r : toStringId(locations[r[1]].userId) = userIdStr)

\* IncludeLocation with one hour instead of `oneHour * 0.75`.
IncludeLocationHourly(lastIncludedTime, locationTime) ==
    lastIncludedTime = 0 \/ Abs(locationTime - lastIncludedTime) >= HOUR_IN_MS

\* `lastIncludedTime === 0 || timeDiff >= oneHour * 0.75`
IncludeLocation(lastIncludedTime, locationTime) ==
    lastIncludedTime = 0 \/ Abs(locationTime - lastIncludedTime) >= (HOUR_IN_MS * 3) \div 4

\* The forEach over the locations of one user from index k on, with
\* lastIncludedTime as it is then: filteredLocations.
RECURSIVE FilterLocations(_, _, _)
FilterLocations(group, k, lastIncludedTime) ==
    IF k > Len(group) THEN <<>>
    ELSE LET locationTime == locations[group[k][1]].timestamp
         IN IF IncludeLocation(lastIncludedTime, locationTime)
            THEN <<group[k]>> \o FilterLocations(group, k + 1, locationTime)
            ELSE FilterLocations(group, k + 1, lastIncludedTime)

\* storage.getFamilyLocationHistory(userId): what it can resolve with, a
\* function from the user id strings of the result to their filtered rows.
getFamilyLocationHistory(userId) ==
    {[k \in {toStringId(locations[r[1]].userId) : r \in HistoryRows(userId)}
         |-> FilterLocations(GroupOf(result, k), 1, 0)] :
        result \in NewestFirst(HistoryRows(userId))}

\* storage.saveLocation called directly with a position of a user.
Storage_SaveLocation(userId, latitude) ==
    /\ Len(locations) < MaxRows
    /\ locations' = saveLocation(locations, userId, latitude, "manual")
    /\ UNCHANGED <<connections, places, notifications, userGeofenceStates, hook,
                   broadcasts, task, started, faults, envSteps, console, prevPing,
                   lastLocationNotification, clock, movedLog,
                   joinVars, wsVars, loggerVars, sent, responses>>

\* Ten minutes pass.
HistoryTick ==
    /\ clock < Epoch + MaxHistoryTicks * HistoryTickMs
    /\ clock' = clock + HistoryTickMs
    /\ UNCHANGED <<connections, places, notifications, userGeofenceStates, hook,
                   broadcasts, task, started, faults, envSteps, console, prevPing,
                   locations, lastLocationNotification, movedLog,
                   joinVars, wsVars, loggerVars, sent, responses>>

\* ------------------------------------------------------ LocationLogger
\* users.locationHistoryEnabled (default true); user 3 has switched it off.
locationHistoryEnabled(u) == u # 3

\* startHourlyLogging without the `activeSessions.has(userId)` return.
startHourlyLoggingUnguarded(userId) ==
    /\ intervalsCreated' = intervalsCreated + 1
    /\ UNCHANGED signalled
    /\ intervals' = MapSet(intervals, intervalsCreated + 1, userId)
    /\ activeSessions' = MapSet(activeSessions, userId,
                               [userId |-> userId, lastLogTime |-> clock,
                                intervalId |-> intervalsCreated + 1])

\* locationLogger.startHourlyLogging(userId): nothing for a user with a
\* session; otherwise a timer is set and a session stored.
startHourlyLogging(userId) ==
    IF userId \in DOMAIN activeSessions
    THEN UNCHANGED loggerVars
    ELSE /\ intervalsCreated' = intervalsCreated + 1
         /\ UNCHANGED signalled
         /\ intervals' = MapSet(intervals, intervalsCreated + 1, userId)
         /\ activeSessions' = MapSet(activeSessions, userId,
                                    [userId |-> userId, lastLogTime |-> clock,
                                     intervalId |-> intervalsCreated + 1])

\* stopHourlyLogging for each user id of a set, without the clearInterval.
stopHourlyLoggingLeaky(userIds) ==
    /\ intervals' = intervals
    /\ activeSessions' = [k \in DOMAIN activeSessions \ userIds |-> activeSessions[k]]
    /\ UNCHANGED <<intervalsCreated, signalled>>

\* locationLogger.stopHourlyLogging(userId) for each user id of a set: the
\* timer of a session found is cleared and the session deleted.
stopHourlyLogging(userIds) ==
    /\ intervals' = [i \in DOMAIN intervals \
                          {activeSessions[k].intervalId : k \in DOMAIN activeSessions \cap userIds}
                       |-> intervals[i]]
    /\ activeSessions' = [k \in DOMAIN activeSessions \ userIds |-> activeSessions[k]]
    /\ UNCHANGED <<intervalsCreated, signalled>>

\* locationLogger.cleanup(): the timer of every session is cleared and
\* activeSessions emptied.
cleanup ==
    /\ intervals' = [i \in DOMAIN intervals \
                          {activeSessions[k].intervalId : k \in DOMAIN activeSessions}
                       |-> intervals[i]]
    /\ activeSessions' = [k \in {} |-> 0]
    /\ UNCHANGED intervalsCreated

\* process.on('SIGTERM') and process.on('SIGINT'): the handler calls cleanup
\* and returns; the process and its servers go on.
Signal ==
    /\ cleanup
    /\ signalled' = TRUE
    /\ UNCHANGED <<connections, places, notifications, userGeofenceStates, hook,
                   broadcasts, task, started, faults, envSteps, console, prevPing,
                   ingestVars, joinVars, wsVars, sent, responses>>

\* A direct call of startHourlyLogging.
Logger_Start(userId) ==
    /\ intervalsCreated < MaxIntervals
    /\ startHourlyLogging(userId)
    /\ UNCHANGED <<connections, places, notifications, userGeofenceStates, hook,
                   broadcasts, task, started, faults, envSteps, console, prevPing,
                   ingestVars, joinVars, wsVars, sent, responses>>

\* A direct call of stopHourlyLogging.
Logger_Stop(userId) ==
    /\ stopHourlyLogging({userId})
    /\ UNCHANGED <<connections, places, notifications, userGeofenceStates, hook,
                   broadcasts, task, started, faults, envSteps, console, prevPing,
                   ingestVars, joinVars, wsVars, sent, responses>>

\* ------------------------------------------------ the WebSocket server
\* wss.on('connection'): a WebSocket is open.
Ws_Connect(ws) ==
    /\ readyState[ws] = "UNBORN"
    /\ readyState' = [readyState EXCEPT ![ws] = "OPEN"]
    /\ UNCHANGED <<connections, places, notifications, userGeofenceStates, hook,
                   broadcasts, task, started, faults, envSteps, console, prevPing,
                   ingestVars, joinVars, clients, authPending, auths, loggerVars, sent, responses>>

\* RegisterClient that keeps the WebSocket a user id is registered with.
RegisterClientKeepFirst(m, userId, ws) ==
    IF toStringId(userId) \in DOMAIN m THEN m ELSE MapSet(m, toStringId(userId), ws)

\* `clients.set(data.userId.toString(), ws)`
RegisterClient(m, userId, ws) == MapSet(m, toStringId(userId), ws)

\* ws.on('message') with { type: 'auth', userId }: the WebSocket is
\* registered for the user id and storage.getUser is called.
Ws_Auth(ws, userId) ==
    /\ readyState[ws] = "OPEN"
    /\ BagCardinality(authPending) < MaxAuthPending
    /\ auths < MaxAuths
    /\ auths' = auths + 1
    /\ clients' = RegisterClient(clients, userId, ws)
    /\ authPending' = authPending (+) SetToBag({toStringId(userId)})
    /\ UNCHANGED <<connections, places, notifications, userGeofenceStates, hook,
                   broadcasts, task, started, faults, envSteps, console, prevPing,
                   ingestVars, joinVars, readyState, loggerVars, sent, responses>>

\* parseInt of a user id string.
parseIntId(k) == CHOOSE u \in 1..Len(Digits) : Digits[u] = k

\* The getUser of an auth message resolves: hourly logging is started for a
\* user with location history enabled.
Auth_GetUser(k) ==
    /\ BagIn(k, authPending)
    /\ authPending' = authPending (-) SetToBag({k})
    /\ IF parseIntId(k) \in Users /\ locationHistoryEnabled(parseIntId(k))
       THEN /\ k \in DOMAIN activeSessions \/ intervalsCreated < MaxIntervals
            /\ startHourlyLogging(k)
       ELSE UNCHANGED loggerVars
    /\ UNCHANGED <<connections, places, notifications, userGeofenceStates, hook,
                   broadcasts, task, started, faults, envSteps, console, prevPing,
                   ingestVars, joinVars, clients, readyState, auths, sent, responses>>

\* It rejects: the catch logs.
Auth_Reject(k) ==
    /\ BagIn(k, authPending)
    /\ faults < MaxFaults
    /\ faults' = faults + 1
    /\ authPending' = authPending (-) SetToBag({k})
    /\ UNCHANGED <<connections, places, notifications, userGeofenceStates, hook,
                   broadcasts, task, started, envSteps, console, prevPing,
                   ingestVars, joinVars, clients, readyState, auths, loggerVars, sent, responses>>

\* The closing handshake of a WebSocket starts, or its socket ends.
Ws_Closing(ws) ==
    /\ readyState[ws] = "OPEN"
    /\ readyState' = [readyState EXCEPT ![ws] = "CLOSING"]
    /\ UNCHANGED <<connections, places, notifications, userGeofenceStates, hook,
                   broadcasts, task, started, faults, envSteps, console, prevPing,
                   ingestVars, joinVars, clients, authPending, auths, loggerVars, sent, responses>>

\* UnregisterClient that deletes every entry.
UnregisterClientAll(m, ws) == [k \in {} |-> 0]

\* `clients.forEach((client, userId) => { if (client === ws) clients.delete(userId) })`
UnregisterClient(m, ws) == [k \in {x \in DOMAIN m : m[x] # ws} |-> m[k]]

\* ws.on('close'): the WebSocket is closed; every entry of clients with it
\* is deleted and the hourly logging of its user id stopped.
Ws_Close(ws) ==
    /\ readyState[ws] \in {"OPEN", "CLOSING"}
    /\ readyState' = [readyState EXCEPT ![ws] = "CLOSED"]
    /\ clients' = UnregisterClient(clients, ws)
    /\ stopHourlyLogging(KeysOf(ws))
    /\ UNCHANGED <<connections, places, notifications, userGeofenceStates, hook,
                   broadcasts, task, started, faults, envSteps, console, prevPing,
                   ingestVars, joinVars, authPending, auths, sent, responses>>

WsSteps ==
    \/ \E ws \in Channels : Ws_Connect(ws)
    \/ \E ws \in Channels, u \in Users : Ws_Auth(ws, u)
    \/ \E k \in DOMAIN authPending : Auth_GetUser(k)
    \/ \E ws \in Channels : Ws_Closing(ws)
    \/ \E ws \in Channels : Ws_Close(ws)

\* --------------------------------------------------------- specifications
CheckSteps ==
    \/ \E t \in Tasks : GetFamilyPlaces_Members(t)
    \/ \E t \in Tasks : GetFamilyPlaces_Query(t)
    \/ \E t \in Tasks : Notify_GetUser(t)
    \/ \E t \in Tasks : Notify_GetFamilyMembers(t)
    \/ \E t \in Tasks : Notify_CreateForMember(t)
    \/ \E t \in Tasks : Notify_CreateForSelf(t)

\* Checks of any users overlap; storage calls may reject; places are deleted,
\* family members removed and states reset in between.
Next ==
    \/ \E t \in Tasks, u \in Movers, x \in Positions :
          started < MaxPings /\ StartCheck(t, u, x)
    \/ CheckSteps
    \/ \E t \in Tasks : Return(t)
    \/ \E t \in Tasks : GetFamilyPlaces_Reject(t)
    \/ \E t \in Tasks : Notify_Reject(t)
    \/ \E u \in Users : clearUserGeofenceState(u)
    \/ \E p \in PlaceIds : deletePlace(p)
    \/ \E u, v \in Users : removeFamilyMember(u, v)

Spec == Init /\ [][Next]_vars

\* One check at a time, each finished before the next starts, no storage
\* failure, places and families as created; states are reset between checks.
AllIdle == \A t \in Tasks : task[t].pc = "idle"

SeqNext ==
    \/ \E u \in Movers, x \in Positions :
          started < MaxSeqChecks /\ AllIdle /\ StartCheck(1, u, x)
    \/ CheckSteps
    \/ \E t \in Tasks : Return(t)
    \/ \E u \in Users : AllIdle /\ clearUserGeofenceState(u)

SeqSpec == Init /\ [][SeqNext]_vars

\* One check at a time, with storage calls that may reject and, between two
\* checks, places deleted, family members removed and states reset.
SeqEnvNext ==
    \/ \E u \in Movers, x \in Positions :
          started < MaxPings /\ AllIdle /\ StartCheck(1, u, x)
    \/ CheckSteps
    \/ \E t \in Tasks : Return(t)
    \/ \E t \in Tasks : GetFamilyPlaces_Reject(t)
    \/ \E t \in Tasks : Notify_Reject(t)
    \/ \E u \in Users : AllIdle /\ clearUserGeofenceState(u)
    \/ \E p \in PlaceIds : AllIdle /\ deletePlace(p)
    \/ \E u, v \in Users : AllIdle /\ removeFamilyMember(u, v)

SeqEnvSpec == Init /\ [][SeqEnvNext]_vars

\* Posted pings of a user overlap; storage calls may reject; time passes.
IngestNext ==
    \/ \E t \in Tasks, x \in PostedPositions :
          started < MaxIngest /\ Ingest_Start(t, 1, x)
    \/ \E t \in Tasks : Ingest_SaveLocation(t)
    \/ \E t \in Tasks : Ingest_GetUser(t)
    \/ \E t \in Tasks : Ingest_GetFamilyMembers(t)
    \/ \E t \in Tasks : Moved_Create(t)
    \/ CheckSteps
    \/ \E t \in Tasks : Ingest_Respond(t)
    \/ \E t \in Tasks : Push_Resolve(t)
    \/ \E t \in Tasks : Ingest_Reject(t)
    \/ \E t \in Tasks : Moved_Reject(t)
    \/ \E t \in Tasks : GetFamilyPlaces_Reject(t)
    \/ \E t \in Tasks : Notify_Reject(t)
    \/ \E t \in Tasks : Push_Reject(t)
    \/ Tick

IngestSpec == Init /\ [][IngestNext]_vars

\* One posted ping of user 1 at a time; storage calls may reject; time passes.
SeqIngestNext ==
    \/ \E x \in PostedPositions :
          started < MaxIngest /\ AllIdle /\ Ingest_Start(1, 1, x)
    \/ \E t \in Tasks : Ingest_SaveLocation(t)
    \/ \E t \in Tasks : Ingest_GetUser(t)
    \/ \E t \in Tasks : Ingest_GetFamilyMembers(t)
    \/ \E t \in Tasks : Moved_Create(t)
    \/ CheckSteps
    \/ \E t \in Tasks : Ingest_Respond(t)
    \/ \E t \in Tasks : Push_Resolve(t)
    \/ \E t \in Tasks : Ingest_Reject(t)
    \/ \E t \in Tasks : Moved_Reject(t)
    \/ \E t \in Tasks : GetFamilyPlaces_Reject(t)
    \/ \E t \in Tasks : Notify_Reject(t)
    \/ \E t \in Tasks : Push_Reject(t)
    \/ Tick

SeqIngestSpec == Init /\ [][SeqIngestNext]_vars

\* One request at a time: users create invitation codes and join with them,
\* and user 1 posts pings from Home; storage calls may reject.
JoinIngestNext ==
    \/ \E u \in Users, code \in Codes : AllIdle /\ createInvitationCode(u, code)
    \/ \E u \in Users, code \in Codes :
          started < MaxIngest /\ AllIdle /\ Join_Start(1, u, code)
    \/ JoinSteps
    \/ \E t \in Tasks : Join_Reject(t)
    \/ \E x \in PostedPositions :
          started < MaxIngest /\ AllIdle /\ Ingest_Start(1, 1, x)
    \/ \E t \in Tasks : Ingest_SaveLocation(t)
    \/ \E t \in Tasks : Ingest_GetUser(t)
    \/ \E t \in Tasks : Ingest_GetFamilyMembers(t)
    \/ \E t \in Tasks : Moved_Create(t)
    \/ CheckSteps
    \/ \E t \in Tasks : Ingest_Respond(t)
    \/ \E t \in Tasks : Push_Resolve(t)
    \/ \E t \in Tasks : Ingest_Reject(t)
    \/ \E t \in Tasks : Moved_Reject(t)
    \/ \E t \in Tasks : GetFamilyPlaces_Reject(t)
    \/ \E t \in Tasks : Notify_Reject(t)
    \/ \E t \in Tasks : Push_Reject(t)

JoinIngestSpec == Init /\ [][JoinIngestNext]_vars

\* Direct calls of the logger for the user ids "1", "2" and "3"; time passes.
LoggerNext ==
    \/ \E u \in Users : Logger_Start(toStringId(u))
    \/ \E u \in Users : Logger_Stop(toStringId(u))
    \/ Tick

LoggerSpec == Init /\ [][LoggerNext]_vars

\* The steps of POST /api/locations whose storage calls resolve.
IngestSteps ==
    \/ \E t \in Tasks : Ingest_SaveLocation(t)
    \/ \E t \in Tasks : Ingest_GetUser(t)
    \/ \E t \in Tasks : Ingest_GetFamilyMembers(t)
    \/ \E t \in Tasks : Moved_Create(t)
    \/ CheckSteps
    \/ \E t \in Tasks : Ingest_Respond(t)
    \/ \E t \in Tasks : Push_Resolve(t)

\* The WebSocket events of the viewers: they connect, send auth messages for
\* their user ids (whose getUser resolves or rejects) and close.
ViewerSteps ==
    \/ \E ws \in Channels : Ws_Connect(ws)
    \/ \E ws \in Channels, u \in Viewers : Ws_Auth(ws, u)
    \/ \E k \in DOMAIN authPending : Auth_GetUser(k)
    \/ \E k \in DOMAIN authPending : Auth_Reject(k)
    \/ \E ws \in Channels : Ws_Closing(ws)
    \/ \E ws \in Channels : Ws_Close(ws)

\* User 1 posts pings from Home, one at a time; between two requests the
\* viewers' WebSockets connect, register and close; the getFamilyPlaces of a
\* check may reject.
WsIngestNext ==
    \/ AllIdle /\ ViewerSteps
    \/ \E x \in PostedPositions :
          started < MaxPings /\ AllIdle /\ Ingest_Start(1, 1, x)
    \/ IngestSteps
    \/ \E t \in Tasks : GetFamilyPlaces_Reject(t)

WsIngestSpec == Init /\ [][WsIngestNext]_vars

\* The same with user 2 posting the pings and every storage call of the
\* handler resolving: user 3 is a viewer outside the family of the mover.
WsAlertNext ==
    \/ AllIdle /\ ViewerSteps
    \/ \E x \in PostedPositions :
          started < MaxPings /\ AllIdle /\ Ingest_Start(1, 2, x)
    \/ IngestSteps

WsAlertSpec == Init /\ [][WsAlertNext]_vars

\* WebSockets connect, send auth messages for any user id and close.
RegistryNext ==
    \/ WsSteps
    \/ \E k \in DOMAIN authPending : Auth_Reject(k)

RegistrySpec == Init /\ [][RegistryNext]_vars

\* WebSockets connect, send auth messages and close, and the process gets
\* SIGTERM or SIGINT at any time.
ShutdownNext ==
    \/ RegistryNext
    \/ Signal

ShutdownSpec == Init /\ [][ShutdownNext]_vars

\* Users 2 and 3 store positions, at most one each in a millisecond, while
\* time passes in steps of ten minutes.
HistoryNext ==
    \/ \E u \in Viewers :
          /\ \A i \in 1..Len(locations) :
                locations[i].userId = u => locations[i].timestamp < clock
          /\ Storage_SaveLocation(u, 0)
    \/ HistoryTick

HistorySpec == Init /\ [][HistoryNext]_vars

\* One check at a time, and between two checks users mark notifications read,
\* one by its id (a row of their own or of someone else) or all of theirs.
ReadNext ==
    \/ \E u \in Movers, x \in Positions :
          started < MaxPings /\ AllIdle /\ StartCheck(1, u, x)
    \/ CheckSteps
    \/ \E t \in Tasks : Return(t)
    \/ \E u \in Users, row \in BagToSet(notifications) :
          BagCardinality(responses) < MaxReads /\ AllIdle /\ MarkRead(u, row)
    \/ \E u \in Users :
          BagCardinality(responses) < MaxReads /\ AllIdle /\ MarkAllRead(u)

ReadSpec == Init /\ [][ReadNext]_vars

\* ------------------------------------------------------------ properties
\* The claims' own reading of "within 20 m", of a place's candidates and of
\* what one check emitted.
Within20m(lat, p) == Abs(lat - PlaceLat(p)) <= 20
Emitted(tk, action) == {e[2] : e \in {f \in Range(tk.emits) : f[1] = action}}
StoredState(m, u) == IF toStringId(u) \in DOMAIN m THEN m[toStringId(u)] ELSE {}
Finishes(t) == task[t].pc # "done" /\ task'[t].pc = "done"

\* C1: with one check at a time, an unchanged non-empty candidate list and no
\* storage failure, a check emits 'entered' for a place exactly when its ping
\* is within 20 m and the previous ping of the user was not (or the user had
\* no state), 'exited' exactly when its ping is outside and the previous ping
\* was inside, nothing otherwise, each at most once and each with its
\* notification record.
C1_OneNotificationPerDwellTransition ==
    \A t \in Tasks :
        LET tk == task[t]
            prev == prevPing[tk.userId]
            candidates == Range(tk.familyPlaces)
            nowIn == {p \in candidates : Within20m(tk.lat, p)}
            prevIn == IF prev = NoPing THEN {} ELSE {p \in candidates : Within20m(prev, p)}
        IN (tk.pc = "done" /\ tk.wrote) =>
              /\ Emitted(tk, "entered") = nowIn \ prevIn
              /\ Emitted(tk, "exited") = prevIn \ nowIn
              /\ Len(tk.emits) = Cardinality(Range(tk.emits))
              /\ \A e \in Range(tk.emits) :
                    CopiesIn(SelfNotification(tk.userId, e[2], e[1]), notifications) >= 1

\* A check that emits 'exited' for the place the user dwelt in, after a check
\* inside it that emitted nothing more.
C1_Witness ==
    \E t \in Tasks :
        /\ task[t].pc = "done" /\ task[t].wrote
        /\ task[t].userId = 2 /\ task[t].emits = <<<<"exited", 1>>>>
        /\ prevPing[2] = GEOFENCE_RADIUS
        /\ CopiesIn(SelfNotification(2, 1, "entered"), notifications) = 1

\* C2: with overlapping checks, no reset and no storage failure, the
\* 'entered' notification of a user for a place is created once per dwell:
\* never a second time before an 'exited' for that place.
C2_EnteredOnceUnderOverlap ==
    \A u \in Movers, p \in PlaceIds :
        (envSteps = 0 /\ faults = 0 /\ CopiesIn(<<u, "exited", p>>, console) = 0)
            => CopiesIn(SelfNotification(u, p, "entered"), notifications) <= 1

\* C3 as stated: a completed check emits 'entered' for exactly the places of
\* currentInside - previousInside and 'exited' for exactly those of
\* previousInside - currentInside.
C3_SetDifferencesAsStated ==
    \A t \in Tasks :
        LET tk == task[t]
            currentInside == {p \in Range(tk.familyPlaces) : Within20m(tk.lat, p)}
        IN (tk.pc = "done" /\ tk.wrote) =>
              /\ Emitted(tk, "entered") = currentInside \ tk.currentGeofences
              /\ Emitted(tk, "exited") = tk.currentGeofences \ currentInside

\* C3 as amended: 'exited' is emitted for exactly the candidate places of
\* previousInside - currentInside; a previously inside place that is no
\* candidate is not reported.
C3_SetDifferencesOverCandidates ==
    \A t \in Tasks :
        LET tk == task[t]
            candidates == Range(tk.familyPlaces)
            currentInside == {p \in candidates : Within20m(tk.lat, p)}
        IN (tk.pc = "done" /\ tk.wrote) =>
              /\ Emitted(tk, "entered") = currentInside \ tk.currentGeofences
              /\ Emitted(tk, "exited") = (tk.currentGeofences \cap candidates) \ currentInside
              /\ Len(tk.emits) = Cardinality(Range(tk.emits))

\* A check that found the user inside Home and now inside Work only: it
\* emitted 'exited' for Home and 'entered' for Work.
C3_Witness ==
    \E t \in Tasks :
        /\ task[t].pc = "done" /\ task[t].wrote
        /\ task[t].currentGeofences = {1}
        /\ Range(task[t].emits) = {<<"exited", 1>>, <<"entered", 2>>}

\* C4: the step that completes a check with a non-empty candidate list leaves
\* as the user's stored state exactly the candidate places within 20 m of the
\* ping.
C4_StateReplaced ==
    [][\A t \in Tasks :
          (Finishes(t) /\ task'[t].wrote) =>
              StoredState(userGeofenceStates', task[t].userId)
                  = {p \in Range(task'[t].familyPlaces) : Within20m(task[t].lat, p)}]_vars

\* A completed check whose stored state lacks a place the previous state had.
C4_Witness ==
    \E t \in Tasks :
        /\ task[t].pc = "done" /\ task[t].wrote
        /\ task[t].currentGeofences = {1, 2}
        /\ StoredState(userGeofenceStates, task[t].userId) = {2}

\* C5 as stated: when a check finishes and no storage call has failed, a place that
\* was stored as inside and is not in the check's candidate list got no
\* 'exited' and is not in the stored state any more.
C5_DroppedAsStated ==
    [][\A t \in Tasks :
          (Finishes(t) /\ faults' = 0) =>
              \A p \in StoredState(userGeofenceStates, task[t].userId)
                          \ Range(task'[t].familyPlaces) :
                  /\ <<"exited", p>> \notin Range(task'[t].emits)
                  /\ p \notin StoredState(userGeofenceStates', task[t].userId)]_vars

\* C5 as amended: the same, for a check that completes with a non-empty
\* candidate list.
C5_DroppedWhenListNotEmpty ==
    [][\A t \in Tasks :
          (Finishes(t) /\ task'[t].wrote) =>
              \A p \in StoredState(userGeofenceStates, task[t].userId)
                          \ Range(task'[t].familyPlaces) :
                  /\ <<"exited", p>> \notin Range(task'[t].emits)
                  /\ p \notin StoredState(userGeofenceStates', task[t].userId)]_vars

\* A completed check that had read a state with a place that is not among
\* its candidates.
C5_Witness ==
    \E t \in Tasks :
        /\ task[t].pc = "done" /\ task[t].wrote
        /\ task[t].currentGeofences \ Range(task[t].familyPlaces) # {}
        /\ StoredState(userGeofenceStates, task[t].userId) \subseteq Range(task[t].familyPlaces)

\* C6: the step in which getFamilyPlaces resolves with an empty list creates
\* no notification, makes no broadcast, logs no transition and leaves the
\* stored geofence states as they were.
C6_EmptyListIsNoOp ==
    [][\A t \in Tasks :
          (/\ task[t].pc = "places_query" /\ task'[t].pc # "places_query"
           /\ faults' = faults
           /\ {p \in places : PlaceOwner(p) \in task[t].memberIds} = {}) =>
              /\ notifications' = notifications
              /\ broadcasts' = broadcasts
              /\ console' = console
              /\ userGeofenceStates' = userGeofenceStates
              /\ task'[t].emits = <<>>]_vars

\* A check that returned on an empty list while the user is stored as inside
\* a place.
C6_Witness ==
    \E t \in Tasks :
        /\ task[t].pc = "done" /\ ~task[t].wrote /\ faults = 0
        /\ task[t].memberIds # {}
        /\ StoredState(userGeofenceStates, task[t].userId) # {}

\* C7: clearUserGeofenceState(u) leaves u without an entry, changes nothing
\* when u had none, and leaves every other user's entry as it was; and a
\* check of a user without an entry emits 'entered' for every candidate
\* place its ping is within 20 m of.
C7_ClearResets ==
    /\ [](\A t \in Tasks :
            (task[t].pc = "done" /\ task[t].wrote /\ ~task[t].hadEntry) =>
                Emitted(task[t], "entered")
                    = {p \in Range(task[t].familyPlaces) : Within20m(task[t].lat, p)})
    /\ [][\A u \in Users :
            clearUserGeofenceState(u) =>
                /\ toStringId(u) \notin DOMAIN userGeofenceStates'
                /\ DOMAIN userGeofenceStates' = DOMAIN userGeofenceStates \ {toStringId(u)}
                /\ \A k \in DOMAIN userGeofenceStates' :
                      userGeofenceStates'[k] = userGeofenceStates[k]
                /\ (toStringId(u) \notin DOMAIN userGeofenceStates
                       => userGeofenceStates' = userGeofenceStates)]_vars

\* A check of a user whose state was reset while inside Home: it emitted
\* 'entered' for Home again, while another user's state is still stored.
C7_Witness ==
    \E t \in Tasks :
        /\ task[t].pc = "done" /\ task[t].wrote /\ ~task[t].hadEntry
        /\ task[t].userId = 2 /\ <<"entered", 1>> \in Range(task[t].emits)
        /\ CopiesIn(SelfNotification(2, 1, "entered"), notifications) = 2
        /\ envSteps = 1
        /\ "1" \in DOMAIN userGeofenceStates

\* The rows of the notifications table with a recipient, type and message, counted.
RowCount(userId, type, message) ==
    BagCardinality([r \in {x \in BagToSet(notifications) :
                              x.userId = userId /\ x.type = type /\ x.message = message}
                      |-> notifications[r]])

RECURSIVE ExpectedRows(_)
ExpectedRows(S) ==
    IF S = {} THEN 0
    ELSE LET e == CHOOSE x \in S : TRUE
         IN console[e] * (Cardinality(getFamilyMembers(e[1])) + 1) + ExpectedRows(S \ {e})

\* C8: with one check at a time and no storage failure, when no fan-out is
\* in flight the table holds, per transition logged for mover M with family
\* F, one row for each member of F with type geofence_{action} and message
\* '{M name} has {action} {place}', one row for M with message 'You {action}
\* {place}', and no other row.
C8_FanOutPerTransition ==
    (\A t \in Tasks : task[t].pc \in {"idle", "done"}) =>
        /\ \A e \in BagToSet(console) :
              LET M == e[1]
                  action == e[2]
                  type == IF action = "entered" THEN "geofence_entered" ELSE "geofence_exited"
              IN /\ M \notin getFamilyMembers(M)
                 /\ RowCount(M, type, <<"You", action, PlaceName(e[3])>>) = console[e]
                 /\ \A f \in getFamilyMembers(M) :
                       RowCount(f, type, <<DisplayName(M), "has", action, PlaceName(e[3])>>)
                           = console[e]
        /\ BagCardinality(notifications) = ExpectedRows(BagToSet(console))

\* User 1, with family members 2 and 3, has entered Home: three rows.
C8_Witness ==
    /\ \E t \in Tasks : task[t].pc = "done" /\ task[t].userId = 1
    /\ \A t \in Tasks : task[t].pc \in {"idle", "done"}
    /\ console = SetToBag({<<1, "entered", 1>>})
    /\ BagCardinality(notifications) = 3

\* C9: when the createNotification of a family member rejects, the handler
\* stays in the fan-out of the same transition: it goes on to the next family
\* member's record or to the mover's self-notification (and from there to the
\* broadcast).
C9_FanOutSurvivesFailure ==
    [][\A t \in Tasks :
          (task[t].pc = "notify_create" /\ Notify_Reject(t)) =>
              /\ task'[t].pc \in {"notify_create", "notify_self"}
              /\ task'[t].i = task[t].i]_vars

GateStep(t) == task[t].pc = "ingest_members" /\ task'[t].pc \in {"moved_create", "places_members"}
GatePassed(t) == task'[t].pc = "moved_create"
HasRecord(userId) == toStringId(userId) \in DOMAIN lastLocationNotification

\* C11 as stated: the gate of a mover with a non-empty family passes iff the
\* mover has no record or now - lastNotified >= 300000 ms.
C11_GatePassesFromFiveMinutes ==
    [][\A t \in Tasks :
          (GateStep(t) /\ getFamilyMembers(task[t].userId) # {}) =>
              (GatePassed(t) <=>
                  (\/ ~HasRecord(task[t].userId)
                   \/ clock - lastLocationNotification[toStringId(task[t].userId)] >= 300000))]_vars

\* C11 as amended: the gate passes iff the mover has no record or
\* now - lastNotified > 300000 ms; a ping it lets through sets lastNotified to
\* now, a ping it stops leaves lastNotified as it was.
C11_GatePassesAfterFiveMinutes ==
    [][\A t \in Tasks :
          (GateStep(t) /\ getFamilyMembers(task[t].userId) # {}) =>
              /\ GatePassed(t) <=>
                    (\/ ~HasRecord(task[t].userId)
                     \/ clock - lastLocationNotification[toStringId(task[t].userId)] > 300000)
              /\ GatePassed(t) =>
                    /\ HasRecord(task[t].userId)'
                    /\ lastLocationNotification'[toStringId(task[t].userId)] = clock
              /\ ~GatePassed(t) => lastLocationNotification' = lastLocationNotification]_vars

\* A ping whose gate was evaluated exactly 300000 ms after the last notified
\* ping of its mover: it was stopped.
C11_Witness ==
    \E t \in Tasks :
        /\ task[t].kind = "ingest" /\ task[t].pc = "places_members"
        /\ HasRecord(task[t].userId)
        /\ task[t].currentTime - lastLocationNotification[toStringId(task[t].userId)] = 300000
        /\ faults = 0

\* The 'location' rows of the notifications table for a recipient about a ping, counted.
MovedRows(recipient, locationId) ==
    BagCardinality([r \in {x \in BagToSet(notifications) :
                              /\ x.type = "location" /\ x.title = "Location Update"
                              /\ x.userId = recipient
                              /\ x.data.locationId = locationId}
                      |-> notifications[r]])

\* The handler of task t is past the loop over familyMembers.
PastMovedLoop(tk) ==
    tk.kind = "ingest" /\ tk.pc \notin {"idle", "save", "ingest_user", "ingest_members", "moved_create"}

\* C12: with no storage failure, no ping has a 'moved' record for its mover or
\* for a user outside the mover's family, or two for one user; and once the
\* handler of a ping that passed the gate is through its loop, each family
\* member of the mover has exactly one 'moved' record of that ping.
C12_OneMovedRecordPerMember ==
    faults = 0 =>
        /\ \A l \in 1..Len(locations), u \in Users :
              /\ MovedRows(u, l) <= 1
              /\ u \notin getFamilyMembers(locations[l].userId) => MovedRows(u, l) = 0
              /\ u = locations[l].userId => MovedRows(u, l) = 0
        /\ \A t \in Tasks :
              (PastMovedLoop(task[t]) /\ task[t].shouldCreate) =>
                  \A u \in getFamilyMembers(task[t].userId) :
                      MovedRows(u, task[t].locationId) = 1

\* The notification records of type geofence_{action} about a place, counted.
GeofenceRows(action, place) ==
    BagCardinality([r \in {x \in BagToSet(notifications) :
                              /\ x.type = GeofenceType(action)
                              /\ x.data.placeId = place}
                      |-> notifications[r]])

\* C8, for the transitions of a posted ping: with no storage failure, when the
\* check of the first ping that found user M entering a place is through,
\* exactly |F|+1 records of that transition exist, F being the accepted
\* family members of M: one per member of F with the 'has' message and one
\* for M with the 'You' message.
C8_RecordsPerTransitionOfPing ==
    \A t \in Tasks :
        LET tk == task[t]
            M == tk.userId
        IN (tk.kind = "ingest" /\ tk.pc = "done" /\ faults = 0) =>
              \A e \in Range(tk.emits) :
                  console[<<M, e[1], e[2]>>] = 1 =>
                      /\ GeofenceRows(e[1], e[2]) = Cardinality(getFamilyMembers(M)) + 1
                      /\ RowCount(M, GeofenceType(e[1]), <<"You", e[1], PlaceName(e[2])>>) = 1
                      /\ \A f \in getFamilyMembers(M) :
                            RowCount(f, GeofenceType(e[1]),
                                     <<DisplayName(M), "has", e[1], PlaceName(e[2])>>) = 1

\* The timers set and not cleared that log for a user id.
TimersOf(userId) == {i \in DOMAIN intervals : intervals[i] = userId}

\* C20: at any time every user id has at most one live timer, and it is the
\* timer of its session; a startHourlyLogging for a user id with a session
\* sets no timer and leaves every session as it was, and a stopHourlyLogging
\* for a user id without a session changes nothing.
C20_OneTimerPerUser ==
    /\ [](\A u \in Users :
            /\ Cardinality(TimersOf(toStringId(u))) <= 1
            /\ \A i \in TimersOf(toStringId(u)) :
                  /\ toStringId(u) \in DOMAIN activeSessions
                  /\ activeSessions[toStringId(u)].intervalId = i)
    /\ [][\A u \in Users :
            /\ (Logger_Start(toStringId(u)) /\ toStringId(u) \in DOMAIN activeSessions)
                  => UNCHANGED <<activeSessions, intervals, intervalsCreated>>
            /\ (Logger_Stop(toStringId(u)) /\ toStringId(u) \notin DOMAIN activeSessions)
                  => UNCHANGED <<activeSessions, intervals, intervalsCreated>>]_vars

\* The logging of user id "1" was started, stopped and started again while
\* user id "2" is logged: the timers 2 and 3 are live, one per user.
C20_Witness ==
    /\ intervalsCreated = 3
    /\ DOMAIN activeSessions = {"1", "2"}
    /\ activeSessions["1"].intervalId = 3
    /\ activeSessions["2"].intervalId = 2
    /\ DOMAIN intervals = {2, 3}

\* The user id u has an entry in clients whose WebSocket is open.
HasOpenChannel(u) ==
    toStringId(u) \in DOMAIN clients /\ readyState[clients[toStringId(u)]] = "OPEN"

\* The handler of task t ends in this step; the getFamilyMembers of its
\* broadcastLocationUpdate resolves in this step.
HandlerEnds(t) == task[t].kind = "ingest" /\ task[t].pc # "idle" /\ task'[t].pc = "idle"
PushResolves(t) == task[t].pc = "push_members" /\ task'[t].pc = "idle"

\* C13: while the storage calls of the handler other than the getFamilyPlaces
\* of the check resolve, the handler of a posted ping ends only with the
\* resolution of the getFamilyMembers of its push, and that step sends a
\* locationUpdate with the ping's location to the WebSocket of each family
\* member of the mover whose entry in clients is open, whether or not the
\* ping passed the throttle.
C13_PushForEveryPing ==
    [][\A t \in Tasks :
          /\ HandlerEnds(t) => PushResolves(t)
          /\ PushResolves(t) =>
                \A m \in getFamilyMembers(task[t].userId) :
                    HasOpenChannel(m) =>
                        LET e == <<clients[toStringId(m)],
                                   LocationUpdate(task[t].userId, task[t].locationId)>>
                        IN CopiesIn(e, sent') > CopiesIn(e, sent)]_vars

\* Two pings of user 1 are through; only the first passed the throttle; the
\* WebSockets of users 2 and 3 each got the locationUpdate of the second.
C13_Witness ==
    /\ AllIdle
    /\ Len(locations) = 2
    /\ BagCardinality(movedLog) = 2
    /\ DOMAIN clients = {"2", "3"}
    /\ clients["2"] # clients["3"]
    /\ \A ws \in Channels : CopiesIn(<<ws, LocationUpdate(1, 2)>>, sent) = 1

\* The getFamilyPlaces of the check of task t rejects in this step.
PlacesFetchFails(t) ==
    task[t].pc \in {"places_members", "places_query"} /\ faults' = faults + 1

\* C14: when the getFamilyPlaces of a ping's check rejects, the stored
\* geofence states are unchanged, nothing is answered yet and the handler goes
\* on as after a check that returned: it answers 200 with the state still
\* unchanged and its push sends the ping to the open WebSocket of each family
\* member; between two requests the stored state of the mover is the one of
\* the last ping whose check ran through, and that is the state the check of
\* the next ping reads.
C14_PlacesFailureStaysInCheck ==
    /\ [](AllIdle =>
            StoredState(userGeofenceStates, 1) =
                IF prevPing[1] = NoPing THEN {}
                ELSE {p \in PlaceIds : Within20m(prevPing[1], p)})
    /\ [][\A t \in Tasks :
            /\ PlacesFetchFails(t) =>
                  /\ userGeofenceStates' = userGeofenceStates
                  /\ responses' = responses
                  /\ task'[t].pc = "done"
            /\ (task[t].pc = "done" /\ task'[t] # task[t]) =>
                  /\ userGeofenceStates' = userGeofenceStates
                  /\ responses' = responses (+)
                        SetToBag({<<"POST /api/locations", task[t].userId, 200>>})
                  /\ task'[t].pc = "push_members"
            /\ PushResolves(t) =>
                  \A m \in getFamilyMembers(task[t].userId) :
                      HasOpenChannel(m) =>
                          CopiesIn(<<clients[toStringId(m)],
                                     LocationUpdate(task[t].userId, task[t].locationId)>>, sent')
                            > CopiesIn(<<clients[toStringId(m)],
                                         LocationUpdate(task[t].userId, task[t].locationId)>>, sent)
            /\ (task[t].pc = "places_query" /\ task'[t].pc \notin {"places_query", "done"}) =>
                  task'[t].currentGeofences = StoredState(userGeofenceStates, task[t].userId)]_vars

\* The places fetch of the first ping of user 1 rejected; the ping was
\* answered 200 and pushed to a WebSocket; no state was stored; the check of
\* the second ping, from Home too, finds user 1 entering Home.
C14_Witness ==
    /\ faults = 1
    /\ auths = 1
    /\ DOMAIN activeSessions = {"2"}
    /\ CopiesIn(<<"POST /api/locations", 1, 200>>, responses) = 1
    /\ \E ws \in Channels : CopiesIn(<<ws, LocationUpdate(1, 1)>>, sent) = 1
    /\ task[1].locationId = 2
    /\ task[1].pc = "notify_user"
    /\ task[1].action = "entered"
    /\ ~task[1].hadEntry

\* The getUser or the getFamilyMembers of step 2 of the handler of task t
\* rejects in this step.
StepTwoFails(t) ==
    task[t].pc \in {"ingest_user", "ingest_members"} /\ faults' = faults + 1

\* C15: when the getUser or the getFamilyMembers of step 2 rejects, the
\* handler of the ping, whose location is stored, goes on to its geofence
\* check (and from there to its push) without answering an error, the stored
\* location kept.
C15_StepTwoFailureSkipsOnlyStepTwo ==
    [][\A t \in Tasks :
          StepTwoFails(t) =>
              /\ task'[t].pc = "places_members"
              /\ task'[t].locationId = task[t].locationId
              /\ responses' = responses
              /\ locations' = locations]_vars

\* What client.send is called with in this step: the <<WebSocket, message>>
\* pairs of which sent' has more copies than sent.
NewlySent == {e \in BagToSet(sent') : CopiesIn(e, sent') > CopiesIn(e, sent)}

\* C16: clients holds one WebSocket per user id; an auth message of a WebSocket
\* for a user id makes it the WebSocket of that id, whatever the id had, and
\* changes no other entry; only auth messages and closes change clients; and
\* every message is sent to a WebSocket that is the entry of some user id at
\* that time, a locationUpdate to one that is the entry of a family member of
\* the mover: a WebSocket replaced in all its entries gets nothing.
C16_OneChannelPerUser ==
    /\ [](\A k \in DOMAIN clients :
              /\ k \in {toStringId(u) : u \in Users}
              /\ clients[k] \in Channels)
    /\ [][/\ \A ws \in Channels, u \in Users :
                Ws_Auth(ws, u) =>
                    /\ DOMAIN clients' = DOMAIN clients \cup {toStringId(u)}
                    /\ clients'[toStringId(u)] = ws
                    /\ \A k \in DOMAIN clients \ {toStringId(u)} : clients'[k] = clients[k]
          /\ clients' # clients =>
                \E ws \in Channels : Ws_Close(ws) \/ \E u \in Users : Ws_Auth(ws, u)
          /\ \A e \in NewlySent :
                /\ KeysOf(e[1]) # {}
                /\ e[2].type = "locationUpdate" =>
                      \E t \in Tasks : \E m \in getFamilyMembers(task[t].userId) :
                          /\ PushResolves(t)
                          /\ toStringId(m) \in KeysOf(e[1])]_vars

\* User 2 registered with WebSocket 1 and got the first ping of user 1 there,
\* then registered with WebSocket 2: the second ping went to WebSocket 2 and
\* not to WebSocket 1, which is still open.
C16_Witness ==
    /\ AllIdle
    /\ auths = 2
    /\ DOMAIN clients = {"2"}
    /\ clients["2"] = 2
    /\ readyState[1] = "OPEN"
    /\ CopiesIn(<<1, LocationUpdate(1, 1)>>, sent) = 1
    /\ CopiesIn(<<2, LocationUpdate(1, 2)>>, sent) = 1
    /\ CopiesIn(<<1, LocationUpdate(1, 2)>>, sent) = 0
    /\ \A e \in BagToSet(sent) : e[1] = 1 => e[2] = LocationUpdate(1, 1) \/ e[2].type # "locationUpdate"

\* C17: the close of a WebSocket deletes from clients the entries whose value
\* it is and leaves every other entry as it was, and the logging session and
\* timer of every user id that keeps its entry stay as they were; no entry of
\* clients ever has a closed WebSocket.
C17_CloseRemovesOwnEntries ==
    /\ [](\A k \in DOMAIN clients : readyState[clients[k]] # "CLOSED")
    /\ [][\A ws \in Channels :
            Ws_Close(ws) =>
                /\ DOMAIN clients' = {k \in DOMAIN clients : clients[k] # ws}
                /\ \A k \in DOMAIN clients' :
                      /\ clients'[k] = clients[k]
                      /\ k \in DOMAIN activeSessions =>
                            /\ k \in DOMAIN activeSessions'
                            /\ activeSessions'[k] = activeSessions[k]
                            /\ activeSessions[k].intervalId \in DOMAIN intervals']_vars

\* User 2 registered with WebSocket 1 (a ping of user 1 was pushed there and
\* the logging session with timer 1 started), then with WebSocket 2; then
\* WebSocket 1 closed: the entry of user 2 is WebSocket 2 and the session with
\* timer 1 is running.
C17_Witness ==
    /\ faults = 0
    /\ auths = 2
    /\ readyState[1] = "CLOSED"
    /\ readyState[2] = "OPEN"
    /\ DOMAIN clients = {"2"}
    /\ clients["2"] = 2
    /\ CopiesIn(<<1, LocationUpdate(1, 1)>>, sent) = 1
    /\ DOMAIN activeSessions = {"2"}
    /\ activeSessions["2"].intervalId = 1
    /\ DOMAIN intervals = {1}
    /\ intervalsCreated = 1

\* The payloads handed to global.broadcastNotification in this step.
NewlyBroadcast ==
    {b \in BagToSet(broadcasts') : CopiesIn(b, broadcasts') > CopiesIn(b, broadcasts)}

\* C18: with WebSockets registering and closing between the requests, every
\* send step of a handler calls client.send only for WebSockets that are open
\* and are the entry of some user id, fails no storage call, answers nothing
\* and leaves the handler on its normal path; a payload handed to
\* broadcastNotification still reaches every open WebSocket with an entry,
\* and a locationUpdate every family member whose entry is open, whatever the
\* entries and states of the other recipients.
C18_SendToMissingOrClosedIsNoOp ==
    [][/\ \A e \in NewlySent :
              /\ readyState[e[1]] = "OPEN"
              /\ KeysOf(e[1]) # {}
       /\ (NewlySent # {} \/ NewlyBroadcast # {}) =>
              /\ faults' = faults
              /\ responses' = responses
       /\ \A b \in NewlyBroadcast :
              /\ \A ws \in Channels :
                    (KeysOf(ws) # {} /\ readyState[ws] = "OPEN") =>
                        CopiesIn(<<ws, SpreadOverGeofence(b)>>, sent')
                          = CopiesIn(<<ws, SpreadOverGeofence(b)>>, sent) + Cardinality(KeysOf(ws))
              /\ \A t \in Tasks :
                    task'[t] # task[t] =>
                        task'[t].pc \in {"moved_create", "places_members", "notify_create",
                                         "notify_self", "notify_user", "done"}
       /\ \A t \in Tasks :
              PushResolves(t) =>
                  /\ task'[t] = IdleTask
                  /\ faults' = faults
                  /\ \A m \in getFamilyMembers(task[t].userId) :
                        HasOpenChannel(m) =>
                            CopiesIn(<<clients[toStringId(m)],
                                       LocationUpdate(task[t].userId, task[t].locationId)>>, sent')
                              > CopiesIn(<<clients[toStringId(m)],
                                           LocationUpdate(task[t].userId, task[t].locationId)>>, sent)]_vars

\* The first ping of user 1 waits for the getFamilyMembers of its push: user 2
\* is registered with the open WebSocket 1 and user 3 with WebSocket 2, which
\* is closing; the two 'location' payloads and the payload of the entry into
\* Home went to WebSocket 1 and nothing to WebSocket 2.
C18_Witness ==
    /\ task[1].pc = "push_members"
    /\ Len(locations) = 1
    /\ DOMAIN clients = {"2", "3"}
    /\ clients["2"] = 1
    /\ clients["3"] = 2
    /\ readyState[1] = "OPEN"
    /\ readyState[2] = "CLOSING"
    /\ BagCardinality(broadcasts) = 3
    /\ BagCardinality(sent) = 3
    /\ \A e \in BagToSet(sent) : e[1] = 1

\* The geofence payloads among the payloads handed to broadcastNotification.
GeofencePayloads(b) == {x \in BagToSet(b) : x.type = "geofence"}

\* C19: with every storage call resolving, each 'entered' or 'exited' logged
\* for a ping has had its geofence payload handed to broadcastNotification
\* once its handler is through, and the step that hands it over sends it to
\* every WebSocket that is open and the entry of a user id, once per entry,
\* whether that user is the mover, a family member of the mover or neither.
C19_GeofenceAlertToEveryOpenConnection ==
    /\ [](AllIdle =>
            BagCardinality(console) =
                BagCardinality([x \in GeofencePayloads(broadcasts) |-> broadcasts[x]]))
    /\ [][\A b \in NewlyBroadcast :
            b.type = "geofence" =>
                \A k \in DOMAIN clients :
                    readyState[clients[k]] = "OPEN" =>
                        CopiesIn(<<clients[k], SpreadOverGeofence(b)>>, sent')
                          = CopiesIn(<<clients[k], SpreadOverGeofence(b)>>, sent)
                              + Cardinality(KeysOf(clients[k]))]_vars

\* User 2 has entered Home; user 3, in no accepted row with user 2, is
\* registered with the open WebSocket 2 and got the geofence payload.
C19_Witness ==
    /\ 3 \notin getFamilyMembers(2)
    /\ "3" \in DOMAIN clients
    /\ clients["3"] = 2
    /\ readyState[2] = "OPEN"
    /\ CopiesIn(<<2, "entered", 1>>, console) = 1
    /\ \E e \in BagToSet(sent) :
          /\ e[1] = 2
          /\ e[2].type = "geofence"
          /\ e[2].userId = 2
          /\ e[2].action = "entered"

\* C21: once a SIGTERM or SIGINT has been handled, no timer is set, and so no
\* timer callback can fire, and activeSessions is empty.
C21_NoTimerAfterShutdown ==
    signalled => (DOMAIN intervals = {} /\ DOMAIN activeSessions = {})

\* The timestamps of a sequence of rows, in minutes since the model started.
MinutesOf(rows) == [i \in 1..Len(rows) |-> (locations[rows[i][1]].timestamp - Epoch) \div 60000]

\* The claim's greedy choice from a list ts of timestamps: the index set that
\* holds 1 and, of the later indices, those whose timestamp is at least 45
\* minutes from the timestamp of the last index before them in the set.
IsGreedy(K, ts) ==
    /\ (Len(ts) > 0) => 1 \in K
    /\ \A i \in 2..Len(ts) :
          LET lastKept == CHOOSE j \in K : j < i /\ \A l \in K : l < i => l <= j
          IN i \in K <=> Abs(ts[i] - ts[lastKept]) >= 45

\* The subsequence of s at the indices of K.
RECURSIVE AtIndices(_, _, _)
AtIndices(s, K, i) ==
    IF i > Len(s) THEN <<>>
    ELSE (IF i \in K THEN <<s[i]>> ELSE <<>>) \o AtIndices(s, K, i + 1)

MarksRead(u) ==
    \E route \in {"PATCH /api/notifications/:id/read", "PATCH /api/notifications/mark-all-read"} :
        CopiesIn(<<route, u, 200>>, responses') > CopiesIn(<<route, u, 200>>, responses)

\* C23: no step takes a row out of the notifications table or changes one,
\* except that a mark-read request changes unread rows of the user who makes
\* it into the same rows with isRead set, and adds none.
C23_OnlyRecipientMarksRead ==
    [][/\ BagCardinality(notifications') >= BagCardinality(notifications)
       /\ (\E u \in Users : MarksRead(u)) =>
              BagCardinality(notifications') = BagCardinality(notifications)
       /\ \A r \in BagToSet(notifications) :
              CopiesIn(r, notifications') < CopiesIn(r, notifications) =>
                  /\ ~r.isRead
                  /\ MarksRead(r.userId)
                  /\ CopiesIn([r EXCEPT !.isRead = TRUE], notifications')
                       - CopiesIn([r EXCEPT !.isRead = TRUE], notifications)
                     = CopiesIn(r, notifications) - CopiesIn(r, notifications')]_vars

\* User 1 has made two mark-read requests, one by id and one for all: the
\* rows of user 1 are read, the rows of users 2 and 3 are there and unread.
C23_Witness ==
    /\ CopiesIn(<<"PATCH /api/notifications/:id/read", 1, 200>>, responses) = 1
    /\ CopiesIn(<<"PATCH /api/notifications/mark-all-read", 1, 200>>, responses) = 1
    /\ \E r \in BagToSet(notifications) : r.userId = 1
    /\ \E r \in BagToSet(notifications) : r.userId = 2
    /\ \E r \in BagToSet(notifications) : r.userId = 3
    /\ \A r \in BagToSet(notifications) : r.isRead <=> r.userId = 1

\* C24: no locationUpdate with the position of a user whose
\* locationSharingEnabled is false is ever sent to a WebSocket.
C24_NoPushWhileSharingDisabled ==
    \A e \in BagToSet(sent) :
        e[2].type = "locationUpdate" => locationSharingEnabled(parseIntId(e[2].userId))

\* ------------------------------------------------------ the family graph
\* A database with no accepted row yet, after users 2 and 3 each generated a
\* code (POST /api/family/generate-code) that nobody has used.
FreshCodes ==
    [code \in {"AAA111", "BBB222"} |->
        [userId |-> IF code = "AAA111" THEN 2 ELSE 3, expiresAt |-> Epoch + DAY_MS,
         usedAt |-> 0, usedById |-> 0]]

FamilyInit ==
    /\ connections = EmptyBag
    /\ places = PlaceIds
    /\ notifications = EmptyBag
    /\ userGeofenceStates = [k \in {} |-> {}]
    /\ hook = TRUE
    /\ broadcasts = EmptyBag
    /\ task = [t \in Tasks |-> IdleTask]
    /\ started = 0
    /\ faults = 0
    /\ envSteps = 0
    /\ console = EmptyBag
    /\ prevPing = [u \in Users |-> NoPing]
    /\ locations = <<>>
    /\ lastLocationNotification = [k \in {} |-> 0]
    /\ clock = Epoch
    /\ movedLog = EmptyBag
    /\ invitationCodes = FreshCodes
    /\ responses = EmptyBag
    /\ clients = [k \in {} |-> 0]
    /\ readyState = [ws \in Channels |-> "UNBORN"]
    /\ authPending = EmptyBag
    /\ auths = 0
    /\ sent = EmptyBag
    /\ activeSessions = [k \in {} |-> 0]
    /\ intervals = [k \in {} |-> ""]
    /\ intervalsCreated = 0
    /\ signalled = FALSE

\* One request at a time and no storage failure: users join with codes,
\* generate a code and remove a member.
FamilyNext ==
    \/ \E u \in Users, code \in Codes : AllIdle /\ createInvitationCode(u, code)
    \/ \E u \in Users, code \in Codes :
          started < MaxIngest /\ AllIdle /\ Join_Start(1, u, code)
    \/ JoinSteps
    \/ \E u, v \in Users : AllIdle /\ removeFamilyMember(u, v)

FamilySpec == FamilyInit /\ [][FamilyNext]_vars

\* The users reached from the users of S over at most n accepted rows.
RECURSIVE ReachFrom(_, _)
ReachFrom(S, n) ==
    IF n = 0 THEN S
    ELSE ReachFrom(S \cup {c[2] : c \in {d \in BagToSet(connections) : d[1] \in S}}, n - 1)

\* C25: between requests, getFamilyMembers of every user is the set of the
\* other users reachable from the user over accepted rows.
C25_FamilyIsReachableSet ==
    AllIdle =>
        \A u \in Users :
            getFamilyMembers(u) = ReachFrom({u}, Cardinality(Users)) \ {u}

OverlapNext ==
    \/ \E t \in Tasks, x \in PostedPositions :
          started < MaxPings /\ Ingest_Start(t, 1, x)
    \/ \E t \in Tasks : Ingest_SaveLocation(t)
    \/ \E t \in Tasks : Ingest_GetUser(t)
    \/ \E t \in Tasks : Ingest_GetFamilyMembers(t)
    \/ \E t \in Tasks : Moved_Create(t)
    \/ CheckSteps
    \/ \E t \in Tasks : Ingest_Respond(t)
    \/ \E t \in Tasks : Push_Resolve(t)
    \/ Tick

OverlapSpec == Init /\ [][OverlapNext]_vars

\* Two pings of one mover in flight at once, both through the throttle gate,
\* whose gates were evaluated within 5 minutes of each other.
OverlapInWindow(t1, t2) ==
    /\ t1 # t2
    /\ task[t1].kind = "ingest" /\ task[t2].kind = "ingest"
    /\ task[t1].userId = task[t2].userId
    /\ task[t1].pc \notin {"save", "ingest_user", "ingest_members"}
    /\ task[t2].pc \notin {"save", "ingest_user", "ingest_members"}
    /\ Abs(task[t1].currentTime - task[t2].currentTime) <= THROTTLE_MS

\* C27 as stated: of two overlapping pings of a mover inside one 5-minute
\* window both pass the gate.
C27_BothOverlappingPingsPass ==
    \A t1, t2 \in Tasks :
        OverlapInWindow(t1, t2) => (task[t1].shouldCreate /\ task[t2].shouldCreate)

\* C27 as amended: the gate is read, tested and set in one step, so of two
\* overlapping pings of a mover inside one 5-minute window at most one passes
\* the gate, and the step in which a ping passes sets lastNotified to its now.
C27_GateIsAtomic ==
    /\ [](\A t1, t2 \in Tasks :
            OverlapInWindow(t1, t2) => ~(task[t1].shouldCreate /\ task[t2].shouldCreate))
    /\ [][\A t \in Tasks :
            (GateStep(t) /\ GatePassed(t)) =>
                /\ HasRecord(task[t].userId)'
                /\ lastLocationNotification'[toStringId(task[t].userId)] = clock]_vars

\* Two pings of user 1 in flight in one window: the first passed the gate and
\* is still creating its notifications, the second was stopped.
C27_Witness ==
    /\ OverlapInWindow(1, 2)
    /\ task[1].shouldCreate /\ task[1].pc = "moved_create"
    /\ ~task[2].shouldCreate
    /\ Len(locations) = 2
    /\ faults = 0

\* Checks of any users overlap; no storage call fails; states are reset at
\* any moment.
OverlapCheckNext ==
    \/ \E t \in Tasks, u \in Movers, x \in Positions :
          started < MaxPings /\ StartCheck(t, u, x)
    \/ CheckSteps
    \/ \E t \in Tasks : Return(t)
    \/ \E u \in Users : clearUserGeofenceState(u)

OverlapCheckSpec == Init /\ [][OverlapCheckNext]_vars

\* C28: with overlapping checks, every check that completes stores the
\* inside-set of its own ping, whatever another check of the user stored
\* before, and between two such writes the stored state of a user changes only
\* by being deleted: the stored state is that of the check that wrote last.
C28_LastWriteWins ==
    [][\A u \in Users :
          LET writers == {t \in Tasks : Finishes(t) /\ task'[t].wrote /\ task[t].userId = u}
          IN /\ \A t \in writers :
                   /\ toStringId(u) \in DOMAIN userGeofenceStates'
                   /\ userGeofenceStates'[toStringId(u)]
                         = {p \in Range(task'[t].familyPlaces) : Within20m(task[t].lat, p)}
             /\ (writers = {} /\ toStringId(u) \in DOMAIN userGeofenceStates') =>
                   /\ toStringId(u) \in DOMAIN userGeofenceStates
                   /\ userGeofenceStates'[toStringId(u)] = userGeofenceStates[toStringId(u)]]_vars

\* Two checks of user 2 were started, the first at Home and the second far
\* from it, and both have completed: the second wrote first, the first wrote
\* last, and user 2 is stored as inside Home.
C28_Witness ==
    /\ started = 2 /\ faults = 0 /\ envSteps = 0
    /\ task[1].pc = "done" /\ task[1].wrote /\ task[1].userId = 2 /\ task[1].lat = 0
    /\ task[2].pc = "done" /\ task[2].wrote /\ task[2].userId = 2
    /\ task[2].lat = 4 * GEOFENCE_RADIUS
    /\ task[2].newGeofences = {}
    /\ StoredState(userGeofenceStates, 2) = {1}

\* One check at a time; the storage calls of sendGeofenceNotification may
\* reject and its getUser may find no row.
DispatchNext ==
    \/ \E u \in Movers, x \in Positions :
          started < MaxSeqChecks /\ AllIdle /\ StartCheck(1, u, x)
    \/ CheckSteps
    \/ \E t \in Tasks : Return(t)
    \/ \E t \in Tasks : Notify_Reject(t)
    \/ \E t \in Tasks : Notify_UserMissing(t)

DispatchSpec == Init /\ [][DispatchNext]_vars

\* The dispatch of the transition that task t detected fails in this step: a
\* storage call of sendGeofenceNotification rejects, or getUser finds no row.
DispatchFails(t) ==
    /\ task[t].pc \in {"notify_user", "notify_members", "notify_create", "notify_self"}
    /\ \/ faults' = faults + 1
       \/ envSteps' = envSteps + 1

\* C29: the step in which the dispatch of a transition fails creates no
\* record and lets the check go on: to the next transition, or to its end,
\* where the inside-set of the ping is stored; and every completed check emits
\* exactly the differences to the previous completed ping of the user, whether
\* or not the transitions of that ping were dispatched.
C29_FailedDispatchStillAdvances ==
    /\ [][\A t \in Tasks :
            DispatchFails(t) =>
                /\ notifications' = notifications
                /\ task'[t].pc \in {"notify_user", "done"}
                /\ task'[t].pc = "done" =>
                      /\ task'[t].wrote
                      /\ StoredState(userGeofenceStates', task[t].userId)
                            = {p \in Range(task[t].familyPlaces) : Within20m(task[t].lat, p)}]_vars
    /\ [](\A t \in Tasks :
            LET tk == task[t]
                prev == prevPing[tk.userId]
                nowIn == {p \in Range(tk.familyPlaces) : Within20m(tk.lat, p)}
                prevIn == IF prev = NoPing THEN {}
                          ELSE {p \in Range(tk.familyPlaces) : Within20m(prev, p)}
            IN tk.pc = "done" =>
                  /\ tk.wrote
                  /\ Emitted(tk, "entered") = nowIn \ prevIn
                  /\ Emitted(tk, "exited") = prevIn \ nowIn)

\* User 2 entered Home with a ping whose dispatch failed on a storage error:
\* no record of the entry exists, and the next ping of user 2, still within
\* 20 m of Home, has completed without emitting anything.
C29_Witness ==
    /\ faults = 1 /\ envSteps = 0
    /\ GeofenceRows("entered", 1) = 0
    /\ prevPing[2] = 0
    /\ task[1].pc = "done" /\ task[1].wrote /\ task[1].userId = 2
    /\ task[1].lat = GEOFENCE_RADIUS /\ task[1].emits = <<>>
    /\ StoredState(userGeofenceStates, 2) = {1}

\* User 1 posts pings from Home, one at a time, and the storage calls of the
\* handler's first steps (saveLocation, getUser, getFamilyMembers) may reject;
\* between two requests the viewers' WebSockets connect, register and close.
PipelineNext ==
    \/ AllIdle /\ ViewerSteps
    \/ \E x \in PostedPositions :
          started < MaxPings /\ AllIdle /\ Ingest_Start(1, 1, x)
    \/ IngestSteps
    \/ \E t \in Tasks : Ingest_Reject(t)

PipelineSpec == Init /\ [][PipelineNext]_vars

\* The ping of task tk has its row in locations.
Persisted(tk) ==
    /\ tk.pc # "save"
    /\ tk.locationId \in 1..Len(locations)
    /\ locations[tk.locationId].userId = tk.userId

\* The notification rows created, and the locationUpdate messages sent, in this step.
RowsAdded == {n \in BagToSet(notifications') : CopiesIn(n, notifications') > CopiesIn(n, notifications)}
UpdatesSent ==
    {e \in BagToSet(sent') : e[2].type = "locationUpdate" /\ CopiesIn(e, sent') > CopiesIn(e, sent)}
PushedAlready(locationId) ==
    \E e \in BagToSet(sent) : e[2].type = "locationUpdate" /\ e[2].location = locationId

\* C30: with one ping at a time, a 'moved' record is created only for the
\* persisted ping in flight, before its geofence check has detected or stored
\* anything and before its push; a geofence record only after the loop of the
\* 'moved' records, before the push; a locationUpdate is sent only once the
\* check has returned, every transition it detected having its record; a ping
\* whose saveLocation rejects ends there, with no row, record or message;
\* every 'moved' record and locationUpdate names a row of locations, and none
\* is produced while no ping is in flight.
C30_PipelineOrder ==
    /\ [][\A t \in Tasks :
            LET tk == task[t]
            IN tk.kind = "ingest" =>
                  /\ \A n \in RowsAdded :
                        IF n.type = "location"
                        THEN /\ Persisted(tk) /\ n.data.locationId = tk.locationId
                             /\ tk.emits = <<>> /\ ~tk.wrote
                             /\ ~PushedAlready(tk.locationId)
                        ELSE /\ Persisted(tk) /\ PastMovedLoop(tk)
                             /\ ~PushedAlready(tk.locationId)
                  /\ \A e \in UpdatesSent :
                        /\ Persisted(tk) /\ tk.pc = "push_members"
                        /\ e[2] = LocationUpdate(tk.userId, tk.locationId)
                        /\ \A x \in Range(tk.emits) :
                              CopiesIn(SelfNotification(tk.userId, x[2], x[1]), notifications) >= 1
                  /\ (tk.pc = "save" /\ task'[t].pc = "idle") =>
                        /\ locations' = locations /\ notifications' = notifications
                        /\ sent' = sent /\ broadcasts' = broadcasts]_vars
    /\ [](/\ \A n \in BagToSet(notifications) :
                n.type = "location" => n.data.locationId \in 1..Len(locations)
          /\ \A e \in BagToSet(sent) :
                e[2].type = "locationUpdate" => e[2].location \in 1..Len(locations))
    /\ [][AllIdle => (RowsAdded = {} /\ UpdatesSent = {})]_vars

\* The first ping of user 1 was persisted, notified to users 2 and 3, found
\* entering Home and pushed to the WebSocket of user 2; the saveLocation of the
\* second ping rejected.
C30_Witness ==
    /\ AllIdle /\ started = 2 /\ faults = 1 /\ Len(locations) = 1
    /\ MovedRows(2, 1) = 1 /\ MovedRows(3, 1) = 1
    /\ CopiesIn(SelfNotification(1, 1, "entered"), notifications) = 1
    /\ \E ws \in Channels : CopiesIn(<<ws, LocationUpdate(1, 1)>>, sent) = 1
    /\ CopiesIn(<<"POST /api/locations", 1, 500>>, responses) = 1

\* User 1 posts pings from Home, one at a time, and the createNotification of
\* a 'moved' notification may reject; between two requests the viewers'
\* WebSockets connect, register and close.
FanOutNext ==
    \/ AllIdle /\ ViewerSteps
    \/ \E x \in PostedPositions :
          started < MaxPings /\ AllIdle /\ Ingest_Start(1, 1, x)
    \/ IngestSteps
    \/ \E t \in Tasks : Moved_Reject(t)

FanOutSpec == Init /\ [][FanOutNext]_vars

\* The createNotification of the 'moved' notification of a family member
\* rejects in this step.
MovedFails(t) == task[t].pc = "moved_create" /\ faults' = faults + 1

\* C31: the step in which the 'moved' notification of a family member fails
\* answers nothing and takes the loop to its next member or, after the last,
\* to the geofence check; at most one member per failure is left without the
\* 'moved' record of the ping; and the handler still ends only with its push,
\* after a check that stored the state, sending the locationUpdate to the open
\* WebSocket of every family member.
C31_MovedFailureIsIsolated ==
    /\ [][\A t \in Tasks :
            MovedFails(t) =>
                /\ task'[t].j = task[t].j + 1
                /\ task'[t].pc = IF task[t].j < Len(task[t].familyMembers)
                                 THEN "moved_create" ELSE "places_members"
                /\ responses' = responses
                /\ notifications' = notifications]_vars
    /\ [](\A t \in Tasks :
            (PastMovedLoop(task[t]) /\ task[t].shouldCreate) =>
                Cardinality({m \in getFamilyMembers(task[t].userId) :
                                MovedRows(m, task[t].locationId) = 0}) <= faults)
    /\ [][\A t \in Tasks :
            HandlerEnds(t) =>
                /\ PushResolves(t) /\ task[t].wrote
                /\ \A m \in getFamilyMembers(task[t].userId) :
                      HasOpenChannel(m) =>
                          CopiesIn(<<clients[toStringId(m)],
                                     LocationUpdate(task[t].userId, task[t].locationId)>>, sent')
                            > CopiesIn(<<clients[toStringId(m)],
                                         LocationUpdate(task[t].userId, task[t].locationId)>>, sent)]_vars

\* The 'moved' notification of one family member of user 1 failed; the other
\* member has its record, the entry into Home was recorded and the ping was
\* pushed to a registered WebSocket.
C31_Witness ==
    /\ AllIdle /\ faults = 1 /\ Len(locations) = 1
    /\ \E m \in {2, 3} : MovedRows(m, 1) = 0 /\ MovedRows(5 - m, 1) = 1
    /\ CopiesIn(SelfNotification(1, 1, "entered"), notifications) = 1
    /\ StoredState(userGeofenceStates, 1) = {1}
    /\ \E ws \in Channels : CopiesIn(<<ws, LocationUpdate(1, 1)>>, sent) = 1

\* Twelve hours pass.
HalfDayTick ==
    /\ clock < Epoch + MaxTicks * HalfDayMs
    /\ clock' = clock + HalfDayMs
    /\ UNCHANGED <<connections, places, notifications, userGeofenceStates, hook,
                   broadcasts, task, started, faults, envSteps, console, prevPing,
                   locations, lastLocationNotification, movedLog,
                   joinVars, wsVars, loggerVars, sent, responses>>

\* Every user stores positions, at most one in a millisecond, while time
\* passes in steps of twelve hours.
ScopeNext ==
    \/ \E u \in Users :
          /\ \A i \in 1..Len(locations) :
                locations[i].userId = u => locations[i].timestamp < clock
          /\ Storage_SaveLocation(u, 0)
    \/ HalfDayTick

ScopeSpec == Init /\ [][ScopeNext]_vars

\* The users with location sharing enabled and a ping of the last 24 hours.
SharingWithRecentPing ==
    {m \in Users : /\ locationSharingEnabled(m)
                   /\ \E i \in 1..Len(locations) :
                         /\ locations[i].userId = m
                         /\ locations[i].timestamp >= clock - DAY_MS}

MemberRecords(m, u, p, action) ==
    CopiesIn(MemberNotification(m, u, DisplayName(u), p, action), notifications)
SelfRecords(u, p, action) == CopiesIn(SelfNotification(u, p, action), notifications)
Broadcasts(u, p, action) ==
    CopiesIn(GeofenceBroadcast(u, DisplayName(u), p, action), broadcasts)

\* C33: of the transitions of a user at a place no broadcast is made before
\* the self-notification, and no self-notification before the record of every
\* family member; the step that creates a family member's record creates no
\* self-notification and makes no broadcast, and the step that makes the
\* broadcast finds the records of all family members created.
C33_RecordsBeforeBroadcast ==
    /\ [](\A u \in Movers, p \in PlaceIds, action \in {"entered", "exited"} :
            /\ Broadcasts(u, p, action) <= SelfRecords(u, p, action)
            /\ \A m \in getFamilyMembers(u) :
                  SelfRecords(u, p, action) <= MemberRecords(m, u, p, action))
    /\ [][\A t \in Tasks :
            LET tk == task[t]
            IN /\ (tk.pc = "notify_create" /\ notifications' # notifications) =>
                     /\ broadcasts' = broadcasts
                     /\ CopiesIn(SelfNotification(tk.userId, Place(tk), tk.action), notifications')
                           = SelfRecords(tk.userId, Place(tk), tk.action)
               /\ (tk.pc \in {"notify_user", "notify_members", "notify_create", "notify_self"}
                      /\ broadcasts' # broadcasts) =>
                     /\ tk.pc = "notify_self"
                     /\ CopiesIn(SelfNotification(tk.userId, Place(tk), tk.action), notifications')
                           = SelfRecords(tk.userId, Place(tk), tk.action) + 1
                     /\ \A m \in getFamilyMembers(tk.userId) :
                           MemberRecords(m, tk.userId, Place(tk), tk.action)
                              >= SelfRecords(tk.userId, Place(tk), tk.action) + 1]_vars

\* User 1 is entering Home: the records of users 2 and 3 exist, the
\* self-notification and the broadcast do not yet.
C33_Witness ==
    \E t \in Tasks :
        /\ task[t].pc = "notify_self" /\ task[t].userId = 1
        /\ task[t].action = "entered" /\ Place(task[t]) = 1
        /\ MemberRecords(2, 1, 1, "entered") = 1 /\ MemberRecords(3, 1, 1, "entered") = 1
        /\ SelfRecords(1, 1, "entered") = 0
        /\ Broadcasts(1, 1, "entered") = 0

\* `(global as any).broadcastNotification = f` and
\* `delete (global as any).broadcastNotification`.
SetHook(registered) ==
    /\ hook # registered
    /\ hook' = registered
    /\ UNCHANGED <<connections, places, notifications, userGeofenceStates, broadcasts,
                   task, started, faults, envSteps, console, prevPing, ingestVars,
                   joinVars, wsVars, loggerVars, sent, responses>>

\* One check at a time, no storage failure; between two checks the hook is
\* registered or deleted.
HookNext ==
    \/ \E u \in Movers, x \in Positions :
          started < MaxSeqChecks /\ AllIdle /\ StartCheck(1, u, x)
    \/ CheckSteps
    \/ \E t \in Tasks : Return(t)
    \/ \E registered \in BOOLEAN : AllIdle /\ SetHook(registered)

HookSpec == Init /\ [][HookNext]_vars

\* C34: the step that ends the dispatch of a transition creates the
\* self-notification, all family members having their records, and lets the
\* check go on without a failure; with a hook registered it hands exactly one
\* payload to the hook, the one of the transition, and with no hook none; no
\* other step hands anything to the hook.
C34_OneBroadcastPerTransitionIfHook ==
    /\ [][\A t \in Tasks :
            LET tk == task[t]
            IN (tk.pc = "notify_self" /\ task'[t].pc # "notify_self") =>
                  /\ CopiesIn(SelfNotification(tk.userId, Place(tk), tk.action), notifications')
                        = SelfRecords(tk.userId, Place(tk), tk.action) + 1
                  /\ \A m \in getFamilyMembers(tk.userId) :
                        MemberRecords(m, tk.userId, Place(tk), tk.action) >= 1
                  /\ task'[t].pc \in {"notify_user", "done"}
                  /\ faults' = faults
                  /\ IF hook
                     THEN /\ NewlyBroadcast = {GeofenceBroadcast(tk.userId, DisplayName(tk.userId),
                                                                 Place(tk), tk.action)}
                          /\ BagCardinality(broadcasts') = BagCardinality(broadcasts) + 1
                     ELSE broadcasts' = broadcasts]_vars
    /\ [][broadcasts' # broadcasts => \E t \in Tasks : task[t].pc = "notify_self"]_vars

\* User 2 entered Home with the hook registered and left it with the hook
\* deleted: both transitions have their records, only the entry was broadcast.
C34_Witness ==
    /\ ~hook /\ AllIdle
    /\ SelfRecords(2, 1, "entered") = 1 /\ MemberRecords(1, 2, 1, "entered") = 1
    /\ SelfRecords(2, 1, "exited") = 1 /\ MemberRecords(1, 2, 1, "exited") = 1
    /\ Broadcasts(2, 1, "entered") = 1
    /\ BagCardinality(broadcasts) = 1

\* The saveLocation of the ping of task t rejects in this step.
SaveFails(t) == task[t].pc = "save" /\ faults' = faults + 1

\* C35: the step in which saveLocation rejects answers 500 and ends the
\* handler, leaving the locations, the notifications, the throttle records,
\* the geofence states, the payloads handed to the hook and the messages sent
\* to WebSockets as they were.
C35_FailedPersistHasNoEffect ==
    [][\A t \in Tasks :
          SaveFails(t) =>
              /\ task'[t] = IdleTask
              /\ responses' = responses (+) SetToBag({<<"POST /api/locations", task[t].userId, 500>>})
              /\ locations' = locations
              /\ notifications' = notifications
              /\ movedLog' = movedLog
              /\ lastLocationNotification' = lastLocationNotification
              /\ userGeofenceStates' = userGeofenceStates
              /\ broadcasts' = broadcasts
              /\ sent' = sent]_vars

\* The first ping of user 1 failed to be stored while user 2 is registered
\* with an open WebSocket: 500 was answered and nothing else exists.
C35_Witness ==
    /\ AllIdle /\ started = 1 /\ faults = 1
    /\ CopiesIn(<<"POST /api/locations", 1, 500>>, responses) = 1
    /\ HasOpenChannel(2)
    /\ locations = <<>> /\ notifications = EmptyBag /\ sent = EmptyBag
    /\ DOMAIN lastLocationNotification = {} /\ DOMAIN userGeofenceStates = {}

\* C36: a re-logging session is active only while some WebSocket is not
\* closed: once every WebSocket that was opened has had its close handled, no
\* session is active.
C36_NoSessionAfterClose ==
    DOMAIN activeSessions # {} =>
        \E ws \in Channels : readyState[ws] \in {"OPEN", "CLOSING"}

\* The messages sent in this step that carry the payload of a 'moved'
\* notification.
MovedPayloadsSent ==
    {e \in NewlySent : "notificationType" \in DOMAIN e[2] /\ e[2].notificationType = "location"}

\* C37: the payload of the 'moved' notification of family member F is sent
\* only to a WebSocket that is the entry of F in clients.
C37_MovedPayloadOnlyToRecipient ==
    [][\A e \in MovedPayloadsSent : toStringId(e[2].userId) \in KeysOf(e[1])]_vars

\* User 2 posts pings from Home, one at a time, every storage call resolving;
\* between two requests WebSockets connect, register for any user id and
\* close.
PushNext ==
    \/ AllIdle /\ WsSteps
    \/ \E x \in PostedPositions :
          started < MaxPings /\ AllIdle /\ Ingest_Start(1, 2, x)
    \/ IngestSteps

PushSpec == Init /\ [][PushNext]_vars

\* The locationUpdate messages sent in this step.
LocationUpdatesSent == {e \in NewlySent : e[2].type = "locationUpdate"}

ConcurrentJoinNext ==
    \/ \E u \in Users, code \in Codes : createInvitationCode(u, code)
    \/ \E t \in Tasks, u \in Users, code \in Codes :
          started < MaxPings /\ Join_Start(t, u, code)
    \/ JoinSteps

ConcurrentJoinSpec == FamilyInit /\ [][ConcurrentJoinNext]_vars

\* The users whose join request was answered with 200.
JoinedUsers ==
    {u \in Users : CopiesIn(<<"POST /api/family/join", u, 200>>, responses) > 0}

\* C39: no invitation code admits two users: at most as many users have
\* joined successfully as there are codes marked used.
C39_OneUserPerCode ==
    Cardinality(JoinedUsers)
        <= Cardinality({c \in DOMAIN invitationCodes : invitationCodes[c].usedAt # 0})

\* ------------------------------------- LocationLogger: the timer callback
\* The rows storage.getUserLatestLocation(userId) can resolve with: a row of
\* the user with the greatest timestamp (none: no row of the user).
getUserLatestLocation(userId) ==
    {i \in 1..Len(locations) :
        /\ locations[i].userId = userId
        /\ \A j \in 1..Len(locations) :
              locations[j].userId = userId => locations[j].timestamp <= locations[i].timestamp}

\* An hour passes and the timer of a session fires: logUserLocation(userId)
\* is called and awaits getUser.
Log_Fire(t, i) ==
    /\ i \in DOMAIN intervals
    /\ clock < Epoch + MaxTicks * HOUR_IN_MS
    /\ clock' = clock + HOUR_IN_MS
    /\ task[t].pc = "idle"
    /\ task' = [task EXCEPT ![t] = [IdleTask EXCEPT !.pc = "log_user", !.kind = "log",
                                                     !.userId = parseIntId(intervals[i])]]
    /\ UNCHANGED <<connections, places, notifications, userGeofenceStates, hook,
                   broadcasts, started, faults, envSteps, console, prevPing,
                   locations, lastLocationNotification, movedLog,
                   joinVars, wsVars, loggerVars, sent, responses>>

\* getUser resolves: a user with history disabled is skipped; otherwise
\* getUserLatestLocation is awaited.
Log_GetUser(t) ==
    /\ task[t].pc = "log_user"
    /\ task' = [task EXCEPT ![t] = IF locationHistoryEnabled(task[t].userId)
                                   THEN [task[t] EXCEPT !.pc = "log_latest"]
                                   ELSE IdleTask]
    /\ UNCHANGED <<connections, places, notifications, userGeofenceStates, hook,
                   broadcasts, started, faults, envSteps, console, prevPing,
                   ingestVars, joinVars, wsVars, loggerVars, sent, responses>>

\* getUserLatestLocation resolves with no row, or with a row older than
\* Date.now() - 2 * HOUR_IN_MS: logUserLocation returns.
Log_Skip(t) ==
    /\ task[t].pc = "log_latest"
    /\ \/ getUserLatestLocation(task[t].userId) = {}
       \/ \E i \in getUserLatestLocation(task[t].userId) :
             locations[i].timestamp < clock - 2 * HOUR_IN_MS
    /\ task' = [task EXCEPT ![t] = IdleTask]
    /\ UNCHANGED <<connections, places, notifications, userGeofenceStates, hook,
                   broadcasts, started, faults, envSteps, console, prevPing,
                   ingestVars, joinVars, wsVars, loggerVars, sent, responses>>

\* getUserLatestLocation resolves with a row not older than two hours:
\* saveLocation is awaited with the position of that row.
Log_GetLatest(t) ==
    /\ task[t].pc = "log_latest"
    /\ \E i \in getUserLatestLocation(task[t].userId) :
          /\ ~(locations[i].timestamp < clock - 2 * HOUR_IN_MS)
          /\ task' = [task EXCEPT ![t].pc = "log_save", ![t].lat = locations[i].latitude]
    /\ UNCHANGED <<connections, places, notifications, userGeofenceStates, hook,
                   broadcasts, started, faults, envSteps, console, prevPing,
                   ingestVars, joinVars, wsVars, loggerVars, sent, responses>>

\* saveLocation resolves: the automatic row is stored and logUserLocation
\* returns.
Log_Save(t) ==
    /\ task[t].pc = "log_save"
    /\ Len(locations) < MaxRows
    /\ locations' = saveLocation(locations, task[t].userId, task[t].lat, "automatic_hourly")
    /\ task' = [task EXCEPT ![t] = IdleTask]
    /\ UNCHANGED <<connections, places, notifications, userGeofenceStates, hook,
                   broadcasts, started, faults, envSteps, console, prevPing,
                   lastLocationNotification, clock, movedLog,
                   joinVars, wsVars, loggerVars, sent, responses>>

\* One of the three storage calls rejects: the catch logs the failure and
\* logUserLocation returns.
Log_Reject(t) ==
    /\ task[t].pc \in {"log_user", "log_latest", "log_save"}
    /\ faults < MaxFaults
    /\ faults' = faults + 1
    /\ task' = [task EXCEPT ![t] = IdleTask]
    /\ UNCHANGED <<connections, places, notifications, userGeofenceStates, hook,
                   broadcasts, started, envSteps, console, prevPing,
                   ingestVars, joinVars, wsVars, loggerVars, sent, responses>>

\* A session is started for one user when the server starts; every hour its
\* timer fires; between two callbacks users report positions themselves, at
\* most one per user in a millisecond.
RelogNext ==
    \/ \E u \in Users :
          clock = Epoch /\ DOMAIN activeSessions = {} /\ Logger_Start(toStringId(u))
    \/ \E u \in Users :
          /\ AllIdle
          /\ \A i \in 1..Len(locations) :
                locations[i].userId = u => locations[i].timestamp < clock
          /\ Storage_SaveLocation(u, 0)
    \/ \E i \in DOMAIN intervals : AllIdle /\ Log_Fire(1, i)
    \/ \E t \in Tasks : Log_GetUser(t)
    \/ \E t \in Tasks : Log_Skip(t)
    \/ \E t \in Tasks : Log_GetLatest(t)
    \/ \E t \in Tasks : Log_Save(t)
    \/ \E t \in Tasks : Log_Reject(t)

RelogSpec == Init /\ [][RelogNext]_vars

\* C40: an automatic row is written only for a user who has reported a
\* position themself within the two hours before it (a report exactly two
\* hours old is let through, as the code's test does).
C40_RelogOnlyAfterOwnReport ==
    \A i \in 1..Len(locations) :
        locations[i].type = "automatic_hourly" =>
            \E j \in 1..Len(locations) :
                /\ locations[j].userId = locations[i].userId
                /\ locations[j].type = "manual"
                /\ locations[j].timestamp >= locations[i].timestamp - 2 * HOUR_IN_MS
====
